---- MODULE Spec2Model ----
(***************************************************************************)
(* A model of alpa/device_mesh.py: the per-host worker (MeshHostWorker),   *)
(* the driver-side mesh handle (PhysicalDeviceMesh), the virtual mesh      *)
(* (VirtualPhysicalMesh) and the resharding tile transfers between two     *)
(* workers.                                                                *)
(*                                                                         *)
(* The state machines below share one list of variables:                   *)
(*   Spec, SpecTasks  one worker serving the driver's calls one at a time; *)
(*   SpecReshard  a send task on worker 0 running concurrently with the    *)
(*                matching receive task on worker 1;                       *)
(*   SpecMesh     the driver launching and shutting down meshes;           *)
(*   SpecThreads  driver threads launching meshes concurrently;            *)
(*   SpecArgs     the driver sharding arguments onto a launched mesh and   *)
(*                deleting remote buffers and executables, the workers     *)
(*                serving the requests;                                    *)
(*   SpecArrays   the distributed and replicated array values;             *)
(*   SpecTopology a virtual mesh being sliced, and the logical meshes of   *)
(*                a virtual or driver-side mesh;                           *)
(*   SpecMemory   the memory statistics of a mesh whose devices work       *)
(*                asynchronously, the driver waiting for its workers;      *)
(*   SpecTimers   the timers of a mesh and of its workers, the driver      *)
(*                waiting for its workers;                                 *)
(*   SpecPut      one array being sharded onto a launched mesh;            *)
(*   SpecProfile  a receive task being profiled on one worker;             *)
(*   SpecTaskRuns one worker running a send task and a receive task on     *)
(*                lists of buffer uuids of any length;                     *)
(*   SpecGather   one worker being handed allgather tasks and running      *)
(*                them;                                                    *)
(*   SpecDelete   one worker deleting lists of buffers;                    *)
(*   SpecReshardFair  SpecReshard with both workers running on.            *)
(***************************************************************************)
EXTENDS Integers, Sequences, FiniteSets, TLC

VARIABLES
    workers,      \* host index -> MeshHostWorker state (the maps of lines 81-86;
                  \* SpecMemory: its local devices)
    signal,       \* global_config.pipeline_use_signal_send_recv
    ret,          \* the last worker call served: operation, arguments, outcome
    hist,         \* per worker and buffer uuid: what last happened to that uuid
    run,          \* SpecReshard: position of each worker inside its task run;
                  \* SpecProfile: position of benchmark_func in its rounds
    plan,         \* SpecReshard: the buffers and flags the task pair is run with;
                  \* SpecProfile: the arguments of the profiling call
    meshes,       \* mesh id -> PhysicalDeviceMesh or VirtualPhysicalMesh state
    used_port_set,\* SpecMesh: the module-level used_port_set (line 432)
    actors,       \* SpecMesh: every worker process spawned so far, with the
                  \* arguments it was spawned with
    services,     \* SpecMesh: every coordination service started so far
    driver,       \* SpecMesh: the driver call in progress and its position;
                  \* SpecMemory, SpecTimers: the ray.get the driver waits in
    ray_initialized, \* ray.is_initialized()
    use_dummy_value_for_benchmarking, \* the global_config flag of that name
    requests,     \* worker requests issued by the driver and not yet served
    arrays,       \* array id -> a value the driver holds (host, device,
                  \* abstract, distributed or replicated array)
    remote_buffer_counter \* the last uuid given to a RemoteBufferRef

clientVars == <<ray_initialized, use_dummy_value_for_benchmarking, requests,
                arrays, remote_buffer_counter>>

vars == <<workers, signal, ret, hist, run, plan, meshes, used_port_set, actors,
          services, driver, ray_initialized, use_dummy_value_for_benchmarking,
          requests, arrays, remote_buffer_counter>>


(***************************************************************************)
(* Bounds of the model.                                                    *)
(***************************************************************************)
MaxUuid == 2          \* uuids are 1..MaxUuid
MaxList == 2          \* longest uuid list handed to a list-taking call

(***************************************************************************)
(* Python dictionaries.                                                    *)
(***************************************************************************)
EmptyMap == [x \in {} |-> 0]

DictSet(m, k, v) == [x \in (DOMAIN m) \cup {k} |-> IF x = k THEN v ELSE m[x]]

DictDel(m, k) == [x \in (DOMAIN m) \ {k} |-> m[x]]

(***************************************************************************)
(* Tensors.  A device buffer is [device, dtype, shape, data]: data is the  *)
(* row-major flattening of the elements.  Element values are integers in   *)
(* units of 1e-8, so that 1e-8 itself is FillValue = 1 and the number 1 is *)
(* UnitsPerOne.  A slice is a sequence of [start, stop] pairs, one per     *)
(* dimension.                                                              *)
(***************************************************************************)
FillValue == 1
UnitsPerOne == 100000000

Dtypes == {"float32", "int32"}

\* numpy/jax conversion of a scalar to a dtype: an integer dtype truncates.
AsType(v, dtype) ==
    IF dtype = "int32" THEN (v \div UnitsPerOne) * UnitsPerOne ELSE v

RECURSIVE Prod(_)
Prod(s) == IF s = <<>> THEN 1 ELSE Head(s) * Prod(Tail(s))

Size(shape) == Prod(shape)

\* the stride of dimension d in a row-major layout
Stride(shape, d) == Prod(SubSeq(shape, d + 1, Len(shape)))

\* the multi-index of flat position f (both 0-based)
Unflatten(f, shape) ==
    [d \in 1..Len(shape) |-> (f \div Stride(shape, d)) % shape[d]]

SliceShape(offset) == [d \in 1..Len(offset) |-> offset[d].stop - offset[d].start]

SliceStarts(offset) == [d \in 1..Len(offset) |-> offset[d].start]

\* the flat positions of a tensor of `shape` that lie in the slice
SliceFlat(offset, shape) ==
    {f \in 0..(Size(shape) - 1) :
        \A d \in 1..Len(shape) :
            /\ offset[d].start <= Unflatten(f, shape)[d]
            /\ Unflatten(f, shape)[d] < offset[d].stop}

RECURSIVE SortedSeq(_)
SortedSeq(S) ==
    IF S = {} THEN <<>>
    ELSE LET m == CHOOSE x \in S : \A y \in S : x <= y
         IN <<m>> \o SortedSeq(S \ {m})

SetMin(S) == CHOOSE x \in S : \A y \in S : x <= y
SetMax(S) == CHOOSE x \in S : \A y \in S : x >= y

\* numpy.full / jnp.full / jnp.ones
Full(shape, v, dtype) == [i \in 1..Size(shape) |-> AsType(v, dtype)]

NoTensor == [device |-> 0, dtype |-> "none", shape |-> <<>>, data |-> <<>>]

\* the value a buffer holds, apart from where it lives
SameValue(a, b) == a.dtype = b.dtype /\ a.shape = b.shape /\ a.data = b.data

(***************************************************************************)
(* Helpers of alpa.util used by send_tile and recv_tile.  alpa/util.py is  *)
(* not among the source files; these follow the specification: a slice is  *)
(* a continuous subset when its elements occupy one contiguous run of the  *)
(* row-major layout (Glossary), the fast path transfers the flat           *)
(* (start offset, element count) range, the slow path extracts or writes   *)
(* exactly the sliced region (section 4.2).                                *)
(***************************************************************************)
is_continuous_subset(offset, tensor_shape) ==
    LET S == SliceFlat(offset, tensor_shape)
    IN  S # {} /\ SetMax(S) - SetMin(S) + 1 = Cardinality(S)

infer_offset_and_n_elements(offset, tensor_shape) ==
    [ind |-> SetMin(SliceFlat(offset, tensor_shape)),
     n_elements |-> Prod(SliceShape(offset))]

\* the region [start, start + size) of each dimension, in row-major order
jax_tensor_index(src, start_indices, slice_sizes) ==
    LET off == [d \in 1..Len(start_indices) |->
                   [start |-> start_indices[d],
                    stop |-> start_indices[d] + slice_sizes[d]]]
        pos == SortedSeq(SliceFlat(off, src.shape))
    IN  [i \in 1..Len(pos) |-> src.data[pos[i] + 1]]

\* dst with the region starting at start_indices, shaped like the update,
\* overwritten by the update's elements in row-major order
jax_tensor_set(dst, update, update_shape, start_indices) ==
    LET off == [d \in 1..Len(start_indices) |->
                   [start |-> start_indices[d],
                    stop |-> start_indices[d] + update_shape[d]]]
        pos == SortedSeq(SliceFlat(off, dst.shape))
        At(f) == CHOOSE i \in 1..Len(pos) : pos[i] = f
    IN  [dst EXCEPT !.data =
            [j \in 1..Len(dst.data) |->
                IF \E i \in 1..Len(pos) : pos[i] = j - 1
                THEN update[At(j - 1)] ELSE dst.data[j]]]

(***************************************************************************)
(* MeshHostWorker.  Every handler is an operator from the worker's state   *)
(* (and the call's arguments) to the outcome of the call:                  *)
(*   w      the worker's state after the call,                             *)
(*   res    "ok" or the name of the exception raised,                      *)
(*   out    the buffers returned (get_buffers) or payloads sent,           *)
(*   ncomm  the number of collective send/receive calls performed.         *)
(***************************************************************************)
NumLocalDevices == 2

Outcome(w, res, out, ncomm) == [w |-> w, res |-> res, out |-> out, ncomm |-> ncomm]

\* MeshHostWorker.__init__: the five maps and the communicator cache start
\* empty.  `shut` says that shutdown has deleted the attributes buffers and
\* executables (lines 424-425): every later `self.buffers` or
\* `self.executables` raises AttributeError.
NewWorker ==
    [buffers |-> EmptyMap, executables |-> EmptyMap, send_tasks |-> EmptyMap,
     recv_tasks |-> EmptyMap, allgather_tasks |-> EmptyMap,
     allgather_communicators |-> EmptyMap, shut |-> FALSE]

\* the signal tensor of a local device: jnp.ones((1,), int8)
SignalTensor == <<UnitsPerOne>>

\* put_buffer without the assertion: a present uuid is overwritten
put_buffer_overwriting(w, uuid, device_id, data) ==
    Outcome([w EXCEPT !.buffers =
                DictSet(@, uuid, [data EXCEPT !.device = device_id])],
            "ok", <<>>, 0)

put_buffer(w, uuid, device_id, data) ==
    IF w.shut THEN Outcome(w, "AttributeError", <<>>, 0)
    ELSE IF uuid \in DOMAIN w.buffers
    THEN Outcome(w, "AssertionError", <<>>, 0)
    ELSE Outcome([w EXCEPT !.buffers =
                     DictSet(@, uuid, [data EXCEPT !.device = device_id])],
                 "ok", <<>>, 0)

\* put_non_zero_buffer guarded like put_buffer
put_non_zero_buffer_asserting(w, uuid, device_id, shape, dtype) ==
    IF uuid \in DOMAIN w.buffers
    THEN Outcome(w, "AssertionError", <<>>, 0)
    ELSE Outcome([w EXCEPT !.buffers =
                     DictSet(@, uuid, [device |-> device_id, dtype |-> dtype,
                                       shape |-> shape,
                                       data |-> Full(shape, FillValue, dtype)])],
                 "ok", <<>>, 0)

put_non_zero_buffer(w, uuid, device_id, shape, dtype) ==
    IF w.shut THEN Outcome(w, "AttributeError", <<>>, 0)
    ELSE
    Outcome([w EXCEPT !.buffers =
                DictSet(@, uuid, [device |-> device_id, dtype |-> dtype,
                                  shape |-> shape,
                                  data |-> Full(shape, FillValue, dtype)])],
            "ok", <<>>, 0)

\* get_buffers that answers an absent uuid with an empty tensor
get_buffers_defaulting(w, uuids) ==
    Outcome(w, "ok",
            [i \in 1..Len(uuids.ids) |->
                IF uuids.ids[i] \in DOMAIN w.buffers THEN w.buffers[uuids.ids[i]]
                ELSE NoTensor], 0)

\* uuids is [iter, ids]: a list of uuids (iter) or one uuid (ids of length 1)
get_buffers(w, uuids) ==
    IF w.shut /\ uuids.ids # <<>> THEN Outcome(w, "AttributeError", <<>>, 0)
    ELSE IF \E i \in 1..Len(uuids.ids) : uuids.ids[i] \notin DOMAIN w.buffers
    THEN Outcome(w, "KeyError", <<>>, 0)
    ELSE Outcome(w, "ok", [i \in 1..Len(uuids.ids) |-> w.buffers[uuids.ids[i]]], 0)

\* the loop of delete_buffers: entries before the first absent uuid are removed
RECURSIVE DeleteEach(_, _)
DeleteEach(buffers, ids) ==
    IF ids = <<>> THEN [buffers |-> buffers, res |-> "ok"]
    ELSE IF Head(ids) \notin DOMAIN buffers
         THEN [buffers |-> buffers, res |-> "KeyError"]
         ELSE DeleteEach(DictDel(buffers, Head(ids)), Tail(ids))

\* a delete_buffers that removes nothing when a uuid of the list is absent
delete_buffers_all_or_nothing(w, uuids) ==
    LET r == DeleteEach(w.buffers, uuids.ids)
    IN  Outcome(IF r.res = "ok" THEN [w EXCEPT !.buffers = r.buffers] ELSE w,
                r.res, <<>>, 0)

delete_buffers(w, uuids) ==
    IF w.shut /\ uuids.ids # <<>> THEN Outcome(w, "AttributeError", <<>>, 0)
    ELSE
    LET r == DeleteEach(w.buffers, uuids.ids)
    IN  Outcome([w EXCEPT !.buffers = r.buffers], r.res, <<>>, 0)

block_until_ready_buffers(w, uuids) ==
    IF w.shut /\ uuids.ids # <<>> THEN Outcome(w, "AttributeError", <<>>, 0)
    ELSE IF \E i \in 1..Len(uuids.ids) : uuids.ids[i] \notin DOMAIN w.buffers
    THEN Outcome(w, "KeyError", <<>>, 0)
    ELSE Outcome(w, "ok", <<>>, 0)

(***************************************************************************)
(* Tile transfers.  send_tile returns the payload handed to the collective *)
(* library in `out`; recv_tile is given the payload the peer sent.         *)
(***************************************************************************)
\* send_tile whose fast path sends the run at the start of the buffer
send_tile_from_start(w, sig, uuid, offset) ==
    IF sig THEN Outcome(w, "ok", <<SignalTensor>>, 1)
    ELSE IF uuid \notin DOMAIN w.buffers THEN Outcome(w, "KeyError", <<>>, 0)
    ELSE
      LET buf == w.buffers[uuid]
      IN  IF is_continuous_subset(offset, buf.shape)
          THEN Outcome(w, "ok",
                   <<SubSeq(buf.data, 1,
                            infer_offset_and_n_elements(offset, buf.shape).n_elements)>>, 1)
          ELSE Outcome(w, "ok",
                   <<jax_tensor_index(buf, SliceStarts(offset), SliceShape(offset))>>, 1)

send_tile(w, sig, uuid, offset) ==
    IF sig THEN Outcome(w, "ok", <<SignalTensor>>, 1)
    ELSE IF w.shut THEN Outcome(w, "AttributeError", <<>>, 0)
    ELSE IF uuid \notin DOMAIN w.buffers THEN Outcome(w, "KeyError", <<>>, 0)
    ELSE
      LET buf == w.buffers[uuid]
          tensor_shape == buf.shape
      IN  IF is_continuous_subset(offset, tensor_shape)
          THEN LET slice_shape == SliceShape(offset)
               IN  IF slice_shape = tensor_shape
                   THEN Outcome(w, "ok", <<buf.data>>, 1)
                   ELSE LET r == infer_offset_and_n_elements(offset, tensor_shape)
                        IN  Outcome(w, "ok",
                                <<SubSeq(buf.data, r.ind + 1, r.ind + r.n_elements)>>, 1)
          ELSE LET start_indices == SliceStarts(offset)
                   slice_sizes == SliceShape(offset)
               IN  Outcome(w, "ok",
                       <<jax_tensor_index(buf, start_indices, slice_sizes)>>, 1)

\* recv_tile that takes the signal branch before it looks the buffer up
recv_tile_signal_first(w, sig, uuid, device_id, indices_in_dst_tile, payload) ==
    IF sig THEN Outcome(w, "ok", <<>>, 1)
    ELSE IF uuid \notin DOMAIN w.buffers THEN Outcome(w, "RuntimeError", <<>>, 0)
    ELSE Outcome([w EXCEPT !.buffers[uuid].data = payload], "ok", <<>>, 1)

recv_tile(w, sig, uuid, device_id, indices_in_dst_tile, payload) ==
    IF w.shut THEN Outcome(w, "AttributeError", <<>>, 0)
    ELSE IF uuid \notin DOMAIN w.buffers THEN Outcome(w, "RuntimeError", <<>>, 0)
    ELSE IF sig THEN Outcome(w, "ok", <<>>, 1)
    ELSE
      LET buf == w.buffers[uuid]
          tensor_shape == buf.shape
          slice_shape == SliceShape(indices_in_dst_tile)
      IN  IF is_continuous_subset(indices_in_dst_tile, tensor_shape)
          THEN IF slice_shape = tensor_shape
               THEN Outcome([w EXCEPT !.buffers[uuid].data = payload], "ok", <<>>, 1)
               ELSE LET r == infer_offset_and_n_elements(indices_in_dst_tile,
                                                         tensor_shape)
                    IN  Outcome([w EXCEPT !.buffers[uuid].data =
                                    [j \in 1..Len(buf.data) |->
                                        IF r.ind < j /\ j <= r.ind + r.n_elements
                                        THEN payload[j - r.ind] ELSE buf.data[j]]],
                                "ok", <<>>, 1)
          ELSE LET start_indices == SliceStarts(indices_in_dst_tile)
               IN  Outcome([w EXCEPT !.buffers[uuid] =
                               jax_tensor_set(buf, payload, slice_shape, start_indices)],
                           "ok", <<>>, 1)

(***************************************************************************)
(* Executables.  An executable object is opaque to this file: it is kept   *)
(* as the class and the arguments it was built from.                       *)
(***************************************************************************)
put_executable(w, uuid, executable_class, args) ==
    IF w.shut THEN Outcome(w, "AttributeError", <<>>, 0)
    ELSE
    Outcome([w EXCEPT !.executables =
                DictSet(@, uuid, [cls |-> executable_class, uuid |-> uuid,
                                  args |-> args])],
            "ok", <<>>, 0)

\* delete_executable that ignores an absent uuid
delete_executable_ignoring(w, uuid) ==
    IF uuid \notin DOMAIN w.executables THEN Outcome(w, "ok", <<>>, 0)
    ELSE Outcome([w EXCEPT !.executables = DictDel(@, uuid)], "ok", <<>>, 0)

delete_executable(w, uuid) ==
    IF w.shut THEN Outcome(w, "AttributeError", <<>>, 0)
    ELSE IF uuid \notin DOMAIN w.executables THEN Outcome(w, "KeyError", <<>>, 0)
    ELSE Outcome([w EXCEPT !.executables = DictDel(@, uuid)], "ok", <<>>, 0)

\* the executable's entry point lives in alpa/mesh_executable.py, which is not
\* among the source files; section 4.2 has the payload passed through opaquely
execute_on_worker(w, executable) == w

run_executable(w, uuid) ==
    IF w.shut THEN Outcome(w, "AttributeError", <<>>, 0)
    ELSE IF uuid \notin DOMAIN w.executables THEN Outcome(w, "KeyError", <<>>, 0)
    ELSE Outcome(execute_on_worker(w, w.executables[uuid]), "ok", <<>>, 0)

(***************************************************************************)
(* Resharding tasks.                                                       *)
(*   tile spec  [offset, rank, gpu_idx]                                    *)
(*   send task  [tile_specs, group_name]                                   *)
(*   recv spec  [device_id, shape, dtype, tile_specs]                      *)
(*   recv task  [recv_specs, group_name]                                   *)
(***************************************************************************)
put_resharding_send_task(w, uuid, tasks, group_name) ==
    Outcome([w EXCEPT !.send_tasks =
                DictSet(@, uuid, [tile_specs |-> tasks, group_name |-> group_name])],
            "ok", <<>>, 0)

put_resharding_recv_task(w, uuid, tasks, group_name) ==
    Outcome([w EXCEPT !.recv_tasks =
                DictSet(@, uuid, [recv_specs |-> tasks, group_name |-> group_name])],
            "ok", <<>>, 0)

Min(a, b) == IF a <= b THEN a ELSE b

\* the loop of run_resharding_send_task over zip(tile_specs, buf_uuids), from
\* pair k on; acc is the outcome of the pairs before k
RECURSIVE SendEach(_, _, _, _, _, _)
SendEach(w, sig, tile_specs, buf_uuids, k, acc) ==
    IF k > Min(Len(tile_specs), Len(buf_uuids)) THEN acc
    ELSE LET r == send_tile(w, sig, buf_uuids[k], tile_specs[k].offset)
         IN  IF r.res # "ok"
             THEN Outcome(w, r.res, acc.out, acc.ncomm)
             ELSE SendEach(w, sig, tile_specs, buf_uuids, k + 1,
                           Outcome(w, "ok", acc.out \o r.out, acc.ncomm + r.ncomm))

\* run_resharding_send_task that releases the first buffer it was given
run_resharding_send_task_releasing(w, sig, uuid, buf_uuids) ==
    IF uuid \notin DOMAIN w.send_tasks THEN Outcome(w, "KeyError", <<>>, 0)
    ELSE LET r == SendEach(w, sig, w.send_tasks[uuid].tile_specs, buf_uuids, 1,
                           Outcome(w, "ok", <<>>, 0))
         IN  IF r.res = "ok" /\ buf_uuids # <<>>
             THEN [r EXCEPT !.w.buffers = DictDel(@, Head(buf_uuids))]
             ELSE r

run_resharding_send_task(w, sig, uuid, buf_uuids) ==
    IF uuid \notin DOMAIN w.send_tasks THEN Outcome(w, "KeyError", <<>>, 0)
    ELSE SendEach(w, sig, w.send_tasks[uuid].tile_specs, buf_uuids, 1,
                  Outcome(w, "ok", <<>>, 0))

\* what a peer outside the model sends for a tile of n elements
PeerPayload(n, pv) == [i \in 1..n |-> pv]

\* the inner loop that receives the first tile of a receive spec only
RecvEachTile_first_only(w, sig, buf_uuid, device_id, tile_specs, pv, ncomm) ==
    IF tile_specs = <<>> THEN Outcome(w, "ok", <<>>, ncomm)
    ELSE LET t == Head(tile_specs)
             r == recv_tile(w, sig, buf_uuid, device_id, t.offset,
                            PeerPayload(Prod(SliceShape(t.offset)), pv))
         IN  IF r.res # "ok" THEN Outcome(r.w, r.res, <<>>, ncomm)
             ELSE Outcome(r.w, "ok", <<>>, ncomm + r.ncomm)

\* the inner loop of run_resharding_recv_task: one recv_tile per tile spec
RECURSIVE RecvEachTile(_, _, _, _, _, _, _)
RecvEachTile(w, sig, buf_uuid, device_id, tile_specs, pv, ncomm) ==
    IF tile_specs = <<>> THEN Outcome(w, "ok", <<>>, ncomm)
    ELSE LET t == Head(tile_specs)
             r == recv_tile(w, sig, buf_uuid, device_id, t.offset,
                            PeerPayload(Prod(SliceShape(t.offset)), pv))
         IN  IF r.res # "ok" THEN Outcome(r.w, r.res, <<>>, ncomm)
             ELSE RecvEachTile(r.w, sig, buf_uuid, device_id, Tail(tile_specs), pv,
                               ncomm + r.ncomm)

\* the outer loop over zip(recv_specs, buf_uuids), from pair k on
RECURSIVE RecvEachSpec(_, _, _, _, _, _, _, _)
RecvEachSpec(w, sig, recv_specs, buf_uuids, set_empty_buffer, pv, k, ncomm) ==
    IF k > Min(Len(recv_specs), Len(buf_uuids)) THEN Outcome(w, "ok", <<>>, ncomm)
    ELSE LET recv_spec == recv_specs[k]
             p == IF set_empty_buffer
                  THEN put_non_zero_buffer(w, buf_uuids[k], recv_spec.device_id,
                                           recv_spec.shape, recv_spec.dtype)
                  ELSE Outcome(w, "ok", <<>>, 0)
             r == RecvEachTile(p.w, sig, buf_uuids[k], recv_spec.device_id,
                               recv_spec.tile_specs, pv, ncomm)
         IN  IF p.res # "ok" THEN Outcome(p.w, p.res, <<>>, ncomm)
             ELSE IF r.res # "ok" THEN r
             ELSE RecvEachSpec(r.w, sig, recv_specs, buf_uuids, set_empty_buffer,
                               pv, k + 1, r.ncomm)

run_resharding_recv_task(w, sig, uuid, buf_uuids, set_empty_buffer, pv) ==
    IF uuid \notin DOMAIN w.recv_tasks THEN Outcome(w, "KeyError", <<>>, 0)
    ELSE RecvEachSpec(w, sig, w.recv_tasks[uuid].recv_specs, buf_uuids,
                      set_empty_buffer, pv, 1, 0)

(***************************************************************************)
(* Allgather.  An allgather spec is [device_ids, tensor_slices]; a task is *)
(* the sequence of its specs in group-index order.  The communicator cache *)
(* is keyed by the sorted device-id list.                                  *)
(***************************************************************************)
RECURSIVE Insert(_, _)
Insert(x, s) ==
    IF s = <<>> THEN <<x>>
    ELSE IF x <= Head(s) THEN <<x>> \o s ELSE <<Head(s)>> \o Insert(x, Tail(s))

RECURSIVE sorted(_)
sorted(s) == IF s = <<>> THEN <<>> ELSE Insert(Head(s), sorted(Tail(s)))

\* rank of a device inside its group: dict(zip(sorted(device_ids), range(...)))
RelativeIdx(device_ids, d) ==
    LET key == sorted(device_ids)
    IN  (CHOOSE i \in 1..Len(key) :
            key[i] = d /\ \A j \in (i + 1)..Len(key) : key[j] # d) - 1

allgather(w, uuids, device_ids, tensor_slices) ==
    LET key == sorted(device_ids)
        np == Min(Len(device_ids), Len(tensor_slices))
        \* the pairs at which line 298 or line 299 raises
        NoUuid(p) == device_ids[p] + 1 > Len(uuids)
        NoBuffer(p) == w.shut \/ uuids[device_ids[p] + 1] \notin DOMAIN w.buffers
        failing == {p \in 1..np : NoUuid(p) \/ NoBuffer(p)}
    IN
    IF key \notin DOMAIN w.allgather_communicators
    THEN Outcome(w, "KeyError", <<>>, 0)
    ELSE IF failing # {}
    THEN Outcome(w, IF NoUuid(SetMin(failing)) THEN "IndexError"
                    ELSE IF w.shut THEN "AttributeError" ELSE "KeyError", <<>>, 0)
    ELSE
      LET Buf(p) == w.buffers[uuids[device_ids[p] + 1]]
          Piece(p) == infer_offset_and_n_elements(tensor_slices[p], Buf(p).shape)
          \* what the participant of rank r contributes
          Part(r) == CHOOSE p \in 1..np : RelativeIdx(device_ids, device_ids[p]) = r
          Contribution(r) ==
              SubSeq(Buf(Part(r)).data, Piece(Part(r)).ind + 1,
                     Piece(Part(r)).ind + Piece(Part(r)).n_elements)
          Gathered(p) ==
              LET n == Piece(p).n_elements
              IN  [j \in 1..Len(Buf(p).data) |->
                      IF (j - 1) \div n < np
                      THEN Contribution((j - 1) \div n)[((j - 1) % n) + 1]
                      ELSE Buf(p).data[j]]
          touched == {uuids[device_ids[p] + 1] : p \in 1..np}
          Owner(u) == CHOOSE p \in 1..np :
                          /\ uuids[device_ids[p] + 1] = u
                          /\ \A q \in (p + 1)..np : uuids[device_ids[q] + 1] # u
      IN  Outcome([w EXCEPT !.buffers =
                      [u \in DOMAIN w.buffers |->
                          IF u \in touched
                          THEN [w.buffers[u] EXCEPT !.data = Gathered(Owner(u))]
                          ELSE w.buffers[u]]],
                  "ok", <<>>, np)

\* nccl.NcclCommunicator.initAll(list(device_ids)): a new set of communicators
\* over the devices.  Two sets over the same devices are different objects;
\* the model tells them apart by the number of sets the cache held when the
\* set was made.
initAll(comms, device_ids) ==
    [devices |-> device_ids, made_after |-> Cardinality(DOMAIN comms)]

RECURSIVE InitCommunicators_unsorted_key(_, _)
InitCommunicators_unsorted_key(comms, specs) ==
    IF specs = <<>> THEN comms
    ELSE LET device_ids == Head(specs).device_ids
         IN  InitCommunicators_unsorted_key(
                 IF device_ids \notin DOMAIN comms
                 THEN DictSet(comms, device_ids, initAll(comms, device_ids))
                 ELSE comms,
                 Tail(specs))

\* the loop of put_resharding_allgather_task: one communicator set per
\* sorted device-id list that is not cached yet
RECURSIVE InitCommunicators(_, _)
InitCommunicators(comms, specs) ==
    IF specs = <<>> THEN comms
    ELSE LET device_ids == sorted(Head(specs).device_ids)
         IN  InitCommunicators(
                 IF device_ids \notin DOMAIN comms
                 THEN DictSet(comms, device_ids, initAll(comms, device_ids))
                 ELSE comms,
                 Tail(specs))

put_resharding_allgather_task(w, uuid, tasks) ==
    Outcome([w EXCEPT
                !.allgather_communicators = InitCommunicators(@, tasks),
                !.allgather_tasks = DictSet(@, uuid, [allgather_specs |-> tasks])],
            "ok", <<>>, 0)

\* the loop of run_allgather_task over the task's groups
RECURSIVE GatherEach(_, _, _, _)
GatherEach(w, specs, buffer_uuids, ncomm) ==
    IF specs = <<>> THEN Outcome(w, "ok", <<>>, ncomm)
    ELSE LET r == allgather(w, buffer_uuids, Head(specs).device_ids,
                            Head(specs).tensor_slices)
         IN  IF r.res # "ok" THEN Outcome(r.w, r.res, <<>>, ncomm)
             ELSE GatherEach(r.w, Tail(specs), buffer_uuids, ncomm + r.ncomm)

run_allgather_task(w, uuid, buffer_uuids) ==
    IF uuid \notin DOMAIN w.allgather_tasks THEN Outcome(w, "KeyError", <<>>, 0)
    ELSE GatherEach(w, w.allgather_tasks[uuid].allgather_specs, buffer_uuids, 0)

\* MeshHostWorker.shutdown: the buffer and executable maps are released; a
\* second shutdown finds no attribute to delete (line 424)
worker_shutdown(w) ==
    IF w.shut THEN Outcome(w, "AttributeError", <<>>, 0)
    ELSE
    Outcome([w EXCEPT !.buffers = EmptyMap, !.executables = EmptyMap,
                      !.shut = TRUE],
            "ok", <<>>, 0)

(***************************************************************************)
(* The inputs the driver hands to a worker.                                *)
(***************************************************************************)
Uuids == 1..MaxUuid
Devices == 0..(NumLocalDevices - 1)

Slice(a, b) == [start |-> a, stop |-> b]

\* host arrays given to put_buffer
Shapes == {<<1, 2>>, <<2, 2>>}
Arange(shape, base) == [i \in 1..Size(shape) |-> (base + i) * UnitsPerOne]
Array(dtype, shape, base) ==
    [device |-> 0, dtype |-> dtype, shape |-> shape, data |-> Arange(shape, base)]
Arrays == {Array("int32", <<1, 2>>, 4), Array("float32", <<2, 2>>, 0)}

\* a uuid, or a list of distinct uuids
UuidLists ==
    {ids \in UNION {[1..n -> Uuids] : n \in 0..MaxList} :
        \A i, j \in 1..Len(ids) : i # j => ids[i] # ids[j]}
UuidArgs == {[iter |-> FALSE, ids |-> <<u>>] : u \in Uuids}
            \cup {[iter |-> TRUE, ids |-> ids] : ids \in UuidLists}

\* a slice lies inside a tensor of this shape
InBounds(offset, shape) ==
    /\ Len(offset) = Len(shape)
    /\ \A d \in 1..Len(shape) :
          0 <= offset[d].start /\ offset[d].start < offset[d].stop
          /\ offset[d].stop <= shape[d]

\* tiles: the first row (a whole one-row buffer) and the first column
Tiles == {<<Slice(0, 1), Slice(0, 2)>>, <<Slice(0, 2), Slice(0, 1)>>}

TileSpec(offset) == [offset |-> offset, rank |-> 1, gpu_idx |-> 0]

\* the tasks registered in SpecTasks move tiles of one-row buffers
Whole == <<Slice(0, 1), Slice(0, 2)>>
Left == <<Slice(0, 1), Slice(0, 1)>>
Right == <<Slice(0, 1), Slice(1, 2)>>

SendTaskSamples == {<<TileSpec(Whole)>>, <<TileSpec(Left), TileSpec(Right)>>}

RecvSpec(device_id, shape, dtype, offsets) ==
    [device_id |-> device_id, shape |-> shape, dtype |-> dtype,
     tile_specs |-> [i \in 1..Len(offsets) |-> TileSpec(offsets[i])]]

RecvTaskSamples ==
    {<<RecvSpec(0, <<1, 2>>, "float32", <<Whole>>)>>,
     <<RecvSpec(1, <<1, 2>>, "float32", <<Left, Right>>)>>}

AllGatherSpec(device_ids, tensor_slices) ==
    [device_ids |-> device_ids, tensor_slices |-> tensor_slices]

AllGatherTaskSamples ==
    {<<AllGatherSpec(<<0, 1>>, <<Left, Right>>)>>,
     <<AllGatherSpec(<<1, 0>>, <<Right, Left>>)>>}

ExecutableClasses == {"NormalMeshWorkerExecutable", "AllocZeroBufferWorkerExecutable"}

GroupNames == {"g0"}

\* what a peer outside the model sends: every element is the number 7
PeerValue == 7 * UnitsPerOne

\* a host array that holds 1e-8 everywhere
FillArray == [device |-> 0, dtype |-> "float32", shape |-> <<1, 2>>,
              data |-> Full(<<1, 2>>, FillValue, "float32")]

\* lists of at most two buffer uuids, handed to a task run
BufLists == {ids \in UuidLists : Len(ids) <= 2}
BufArgs == {[iter |-> FALSE, ids |-> <<u>>] : u \in Uuids}
           \cup {[iter |-> TRUE, ids |-> ids] : ids \in BufLists}

(***************************************************************************)
(* Spec: one worker (host 0) serves the driver's calls one at a time,      *)
(* before and after its shutdown.                                          *)
(***************************************************************************)
NoHist == [tag |-> "none", val |-> NoTensor]

\* the map a handler looks its uuid up in
MapOf(w, op) ==
    CASE op \in {"put_executable", "delete_executable", "run_executable"} -> w.executables
      [] op \in {"put_resharding_send_task", "run_resharding_send_task"} -> w.send_tasks
      [] op \in {"put_resharding_recv_task", "run_resharding_recv_task"} -> w.recv_tasks
      [] op \in {"put_resharding_allgather_task", "run_allgather_task"} -> w.allgather_tasks
      [] OTHER -> w.buffers

\* the record of a served call: the handler, the uuid it was given (0 when it
\* was given a list or none), whether that uuid was in the handler's map when
\* the call arrived, and "ok" or the exception raised
Call(w, op, uuid, r) ==
    [op |-> op, uuid |-> uuid, was |-> uuid \in DOMAIN MapOf(w, op), res |-> r.res]

\* the uuid of a call given one uuid rather than a list
One(uuids) == IF uuids.iter THEN 0 ELSE uuids.ids[1]


\* what last happened to each buffer uuid of worker h (a history that starts
\* as the empty tuple is not recorded)
NextHist(h, op, uuid, arg, r) ==
    LET old == workers[h].buffers
        new == r.w.buffers
    IN  [u \in Uuids |->
            IF op = "put_buffer" /\ r.res = "ok" /\ u = uuid
            THEN [tag |-> "put", val |-> arg]
            ELSE IF u \in DOMAIN old /\ u \notin DOMAIN new
            THEN [tag |-> "deleted", val |-> NoTensor]
            ELSE IF u \in DOMAIN new /\ (u \notin DOMAIN old \/ old[u] # new[u])
            THEN [tag |-> "other", val |-> NoTensor]
            ELSE hist[h][u]]

Serve(h, op, uuid, arg, r) ==
    /\ workers' = [workers EXCEPT ![h] = r.w]
    /\ ret' = Call(workers[h], op, uuid, r)
    /\ hist' = IF hist[h] = <<>> THEN hist
               ELSE [hist EXCEPT ![h] = NextHist(h, op, uuid, arg, r)]
    /\ UNCHANGED <<signal, run, plan, meshes, used_port_set, actors, services, driver>>
    /\ UNCHANGED clientVars

W0 == workers[0]

PutBuffer(host_arrays, devices) ==
    \E uuid \in Uuids, device_id \in devices, data \in host_arrays :
        Serve(0, "put_buffer", uuid, [data EXCEPT !.device = device_id],
              put_buffer(W0, uuid, device_id, data))

PutNonZeroBuffer(shapes, dtypes, devices) ==
    \E uuid \in Uuids, device_id \in devices, shape \in shapes, dtype \in dtypes :
        Serve(0, "put_non_zero_buffer", uuid, [device |-> device_id, dtype |-> dtype, shape |-> shape, data |-> <<>>],
              put_non_zero_buffer(W0, uuid, device_id, shape, dtype))

GetBuffers(args) ==
    \E uuids \in args :
        Serve(0, "get_buffers", One(uuids), NoTensor, get_buffers(W0, uuids))

DeleteBuffers(args) ==
    \E uuids \in args :
        Serve(0, "delete_buffers", One(uuids), NoTensor, delete_buffers(W0, uuids))

BlockUntilReadyBuffers(args) ==
    \E uuids \in args :
        Serve(0, "block_until_ready_buffers", One(uuids), NoTensor,
              block_until_ready_buffers(W0, uuids))

\* a tile handed to a tile transfer lies inside the buffer it names
Fits(w, uuid, offset) ==
    uuid \in DOMAIN w.buffers => InBounds(offset, w.buffers[uuid].shape)

SendTile(tiles) ==
    \E uuid \in Uuids, offset \in tiles :
        /\ Fits(W0, uuid, offset)
        /\ Serve(0, "send_tile", uuid, NoTensor,
                 send_tile(W0, signal, uuid, offset))

RecvTile(tiles, devices, pv) ==
    \E uuid \in Uuids, device_id \in devices, offset \in tiles :
        /\ Fits(W0, uuid, offset)
        /\ Serve(0, "recv_tile", uuid, NoTensor,
                 recv_tile(W0, signal, uuid, device_id, offset,
                           PeerPayload(Prod(SliceShape(offset)), pv)))

\* SpecTasks registers one executable or task at a time
TaskCount(w) ==
    Cardinality(DOMAIN w.executables) + Cardinality(DOMAIN w.send_tasks)
    + Cardinality(DOMAIN w.recv_tasks) + Cardinality(DOMAIN w.allgather_tasks)

Room(w, map, uuid) == uuid \in DOMAIN map \/ TaskCount(w) = 0

PutExecutable ==
    \E uuid \in Uuids, cls \in ExecutableClasses :
        /\ Room(W0, W0.executables, uuid)
        /\ Serve(0, "put_executable", uuid, NoTensor,
              put_executable(W0, uuid, cls, <<>>))

DeleteExecutable ==
    \E uuid \in Uuids :
        Serve(0, "delete_executable", uuid, NoTensor,
              delete_executable(W0, uuid))

RunExecutable ==
    \E uuid \in Uuids :
        Serve(0, "run_executable", uuid, NoTensor, run_executable(W0, uuid))

PutReshardingSendTask ==
    \E uuid \in Uuids, tasks \in SendTaskSamples, group_name \in GroupNames :
        /\ Room(W0, W0.send_tasks, uuid)
        /\ Serve(0, "put_resharding_send_task", uuid, NoTensor,
              put_resharding_send_task(W0, uuid, tasks, group_name))

PutReshardingRecvTask ==
    \E uuid \in Uuids, tasks \in RecvTaskSamples, group_name \in GroupNames :
        /\ Room(W0, W0.recv_tasks, uuid)
        /\ Serve(0, "put_resharding_recv_task", uuid, NoTensor,
              put_resharding_recv_task(W0, uuid, tasks, group_name))

PutReshardingAllgatherTask ==
    \E uuid \in Uuids, tasks \in AllGatherTaskSamples :
        /\ Room(W0, W0.allgather_tasks, uuid)
        /\ Serve(0, "put_resharding_allgather_task", uuid, NoTensor,
              put_resharding_allgather_task(W0, uuid, tasks))

\* the tiles of a stored task lie inside the buffers they are paired with
SendTaskFits(w, uuid, buf_uuids) ==
    uuid \in DOMAIN w.send_tasks =>
        \A k \in 1..Min(Len(w.send_tasks[uuid].tile_specs), Len(buf_uuids)) :
            Fits(w, buf_uuids[k], w.send_tasks[uuid].tile_specs[k].offset)

RecvTaskFits(w, uuid, buf_uuids, set_empty_buffer) ==
    uuid \in DOMAIN w.recv_tasks =>
        \A k \in 1..Min(Len(w.recv_tasks[uuid].recv_specs), Len(buf_uuids)) :
            LET recv_spec == w.recv_tasks[uuid].recv_specs[k]
            IN  \A i \in 1..Len(recv_spec.tile_specs) :
                    IF set_empty_buffer
                    THEN InBounds(recv_spec.tile_specs[i].offset, recv_spec.shape)
                    ELSE Fits(w, buf_uuids[k], recv_spec.tile_specs[i].offset)

AllgatherTaskFits(w, uuid, buffer_uuids) ==
    uuid \in DOMAIN w.allgather_tasks =>
        \A g \in 1..Len(w.allgather_tasks[uuid].allgather_specs) :
            LET sp == w.allgather_tasks[uuid].allgather_specs[g]
            IN  \A p \in 1..Len(sp.device_ids) :
                    sp.device_ids[p] + 1 <= Len(buffer_uuids) =>
                        Fits(w, buffer_uuids[sp.device_ids[p] + 1], sp.tensor_slices[p])

RunReshardingSendTask ==
    \E uuid \in Uuids, buf_uuids \in BufLists :
        /\ SendTaskFits(W0, uuid, buf_uuids)
        /\ Serve(0, "run_resharding_send_task", uuid, NoTensor, run_resharding_send_task(W0, signal, uuid, buf_uuids))

RunReshardingRecvTask ==
    \E uuid \in Uuids, buf_uuids \in BufLists, set_empty_buffer \in BOOLEAN :
        /\ RecvTaskFits(W0, uuid, buf_uuids, set_empty_buffer)
        /\ Serve(0, "run_resharding_recv_task", uuid, NoTensor,
                 run_resharding_recv_task(W0, signal, uuid, buf_uuids,
                                          set_empty_buffer, FillValue))

RunAllgatherTask ==
    \E uuid \in Uuids, buffer_uuids \in BufLists :
        /\ AllgatherTaskFits(W0, uuid, buffer_uuids)
        /\ Serve(0, "run_allgather_task", uuid, NoTensor, run_allgather_task(W0, uuid, buffer_uuids))

Allgather ==
    \E uuids \in BufLists, sp \in UNION {{t[g] : g \in 1..Len(t)} : t \in AllGatherTaskSamples} :
        /\ \A p \in 1..Len(sp.device_ids) :
              sp.device_ids[p] + 1 <= Len(uuids) =>
                  Fits(W0, uuids[sp.device_ids[p] + 1], sp.tensor_slices[p])
        /\ Serve(0, "allgather", 0, NoTensor,
                 allgather(W0, uuids, sp.device_ids, sp.tensor_slices))

WorkerShutdown ==
    Serve(0, "shutdown", 0, NoTensor, worker_shutdown(W0))

NoCall == [op |-> "none", uuid |-> 0, was |-> FALSE, res |-> "ok"]

\* the variables of the other state machines, parked
IdleReshard == run = <<>> /\ plan = <<>>
IdleArgs ==
    /\ ray_initialized = TRUE /\ use_dummy_value_for_benchmarking = FALSE
    /\ requests = <<>> /\ arrays = <<>> /\ remote_buffer_counter = 0
IdleMesh ==
    /\ meshes = <<>> /\ used_port_set = {} /\ actors = <<>> /\ services = <<>>
    /\ driver = <<>>

Init ==
    /\ workers = [h \in {0} |-> NewWorker]
    /\ signal \in BOOLEAN
    /\ ret = NoCall
    /\ hist = [h \in {0} |-> [u \in Uuids |-> NoHist]]
    /\ IdleReshard
    /\ IdleMesh
    /\ IdleArgs

\* the buffer calls of a worker, on host arrays of two shapes and two dtypes
Next ==
    \/ PutBuffer(Arrays, {0})
    \/ PutNonZeroBuffer({<<1, 2>>}, Dtypes, {0})
    \/ GetBuffers(UuidArgs)
    \/ DeleteBuffers(UuidArgs)
    \/ BlockUntilReadyBuffers(UuidArgs)
    \/ SendTile(Tiles)
    \/ RecvTile(Tiles, {0}, PeerValue)
    \/ WorkerShutdown

Spec == Init /\ [][Next]_vars

(***************************************************************************)
(* SpecTasks: every call of a worker, on one-row buffers that hold 1e-8    *)
(* (the peer sends 1e-8 as well), with one executable or task registered   *)
(* at a time and no history kept.                                          *)
(***************************************************************************)
InitTasks ==
    /\ workers = [h \in {0} |-> NewWorker]
    /\ signal \in BOOLEAN
    /\ ret = NoCall
    /\ hist = [h \in {0} |-> <<>>]
    /\ IdleReshard
    /\ IdleMesh
    /\ IdleArgs

NextTasks ==
    \/ PutBuffer({FillArray}, {0})
    \/ PutNonZeroBuffer({<<1, 2>>}, {"float32"}, {0})
    \/ GetBuffers(BufArgs)
    \/ DeleteBuffers(BufArgs)
    \/ BlockUntilReadyBuffers(BufArgs)
    \/ SendTile({Whole, Left})
    \/ RecvTile({Whole, Left}, {0}, FillValue)
    \/ PutExecutable
    \/ DeleteExecutable
    \/ RunExecutable
    \/ PutReshardingSendTask
    \/ PutReshardingRecvTask
    \/ PutReshardingAllgatherTask
    \/ RunReshardingSendTask
    \/ RunReshardingRecvTask
    \/ RunAllgatherTask
    \/ Allgather
    \/ WorkerShutdown

SpecTasks == InitTasks /\ [][NextTasks]_vars

(***************************************************************************)
(* SpecReshard: worker 0 (A) runs a send task while worker 1 (B) runs the  *)
(* matching receive task.  Each worker walks through its loop; a tile      *)
(* moves when the sender has sliced it and the receiver is at the matching *)
(* recv_tile (the collective send and receive complete together).          *)
(*   plan  [src, send_bufs, recv_bufs, set_empty_buffer]                   *)
(*   run   [a |-> [k, stage, to_send], b |-> [k, i, stage]]                *)
(***************************************************************************)
RowT(r) == <<Slice(r, r + 1), Slice(0, 2)>>
ColT(c) == <<Slice(0, 2), Slice(c, c + 1)>>

\* a plan: A's source buffers, the tiles A sends, the buffers B receives into
Plan(src, tiles, recv_specs, recv_bufs, send_bufs) ==
    [src |-> src, tiles |-> [i \in 1..Len(tiles) |-> TileSpec(tiles[i])],
     recv_specs |-> recv_specs, recv_bufs |-> recv_bufs, send_bufs |-> send_bufs]

ReshardPlans ==
    UNION {
      {\* the two rows of one source, into the rows of one destination
       Plan(DictSet(EmptyMap, 1, Array(dt, <<2, 2>>, base)), <<RowT(0), RowT(1)>>,
            <<RecvSpec(0, <<2, 2>>, dt, <<RowT(0), RowT(1)>>)>>, <<1>>, <<1, 1>>),
       \* the two columns of one source, into two column buffers
       Plan(DictSet(EmptyMap, 1, Array(dt, <<2, 2>>, base)), <<ColT(0), ColT(1)>>,
            <<RecvSpec(0, <<2, 1>>, dt, <<ColT(0)>>),
              RecvSpec(1, <<2, 1>>, dt, <<ColT(0)>>)>>, <<1, 2>>, <<1, 1>>),
       \* two column buffers, into the columns of one destination
       Plan(DictSet(DictSet(EmptyMap, 1, Array(dt, <<2, 1>>, base)),
                    2, Array(dt, <<2, 1>>, base + 2)), <<ColT(0), ColT(0)>>,
            <<RecvSpec(0, <<2, 2>>, dt, <<ColT(1), ColT(0)>>)>>, <<2>>, <<1, 2>>),
       \* two row buffers, into the rows of one destination
       Plan(DictSet(DictSet(EmptyMap, 1, Array(dt, <<1, 2>>, base)),
                    2, Array(dt, <<1, 2>>, base + 2)), <<RowT(0), RowT(0)>>,
            <<RecvSpec(1, <<2, 2>>, dt, <<RowT(0), RowT(1)>>)>>, <<1>>, <<2, 1>>)}
      : dt \in Dtypes, base \in {0, 4}}

\* B's buffers when they were allocated before the run
RECURSIVE Placeholders(_, _, _)
Placeholders(w, recv_specs, buf_uuids) ==
    IF recv_specs = <<>> \/ buf_uuids = <<>> THEN w
    ELSE Placeholders(put_non_zero_buffer(w, Head(buf_uuids), Head(recv_specs).device_id,
                                          Head(recv_specs).shape,
                                          Head(recv_specs).dtype).w,
                      Tail(recv_specs), Tail(buf_uuids))

InitReshard ==
    \E p \in ReshardPlans, set_empty_buffer \in BOOLEAN, allocated \in BOOLEAN :
        /\ plan = [src |-> p.src, send_bufs |-> p.send_bufs, recv_bufs |-> p.recv_bufs,
                   set_empty_buffer |-> set_empty_buffer]
        /\ workers =
              [h \in {0, 1} |->
                  IF h = 0
                  THEN put_resharding_send_task(
                           [NewWorker EXCEPT !.buffers = p.src], 1, p.tiles, "g0").w
                  ELSE put_resharding_recv_task(
                           IF allocated
                           THEN Placeholders(NewWorker, p.recv_specs, p.recv_bufs)
                           ELSE NewWorker, 1, p.recv_specs, "g0").w]
        /\ run = [a |-> [k |-> 1, stage |-> "slice", to_send |-> <<>>],
                  b |-> [k |-> 1, i |-> 1, stage |-> "alloc"]]
        /\ signal \in BOOLEAN
        /\ ret = NoCall
        /\ hist = [h \in {0, 1} |-> <<>>]
        /\ IdleMesh
        /\ IdleArgs

SendTask == workers[0].send_tasks[1]
RecvTask == workers[1].recv_tasks[1]

UnchangedByReshard ==
    UNCHANGED <<signal, ret, hist, plan, meshes, used_port_set, actors, services,
                driver, clientVars>>

\* run_resharding_send_task, line 326: A slices the next tile (send_tile up to
\* the collective send), or ends its loop
SendSlice ==
    /\ run.a.stage = "slice"
    /\ IF run.a.k > Min(Len(SendTask.tile_specs), Len(plan.send_bufs))
       THEN run' = [run EXCEPT !.a.stage = "returned"]
       ELSE LET r == send_tile(workers[0], signal, plan.send_bufs[run.a.k],
                               SendTask.tile_specs[run.a.k].offset)
            IN  run' = [run EXCEPT !.a.stage = IF r.res = "ok" THEN "send" ELSE r.res,
                                   !.a.to_send = r.out]
    /\ UNCHANGED workers
    /\ UnchangedByReshard

\* run_resharding_recv_task, lines 334-337: B allocates the placeholder of the
\* next receive spec when set_empty_buffer, or ends its loop
RecvAllocate ==
    /\ run.b.stage = "alloc"
    /\ IF run.b.k > Min(Len(RecvTask.recv_specs), Len(plan.recv_bufs))
       THEN run' = [run EXCEPT !.b.stage = "returned"] /\ UNCHANGED workers
       ELSE LET recv_spec == RecvTask.recv_specs[run.b.k]
            IN  /\ workers' =
                      IF plan.set_empty_buffer
                      THEN [workers EXCEPT ![1] =
                               put_non_zero_buffer(@, plan.recv_bufs[run.b.k],
                                                   recv_spec.device_id, recv_spec.shape,
                                                   recv_spec.dtype).w]
                      ELSE workers
                /\ run' = [run EXCEPT !.b.i = 1, !.b.stage = "recv"]
    /\ UnchangedByReshard

\* where B stands after the tile (k, i)
AfterTile(b) ==
    IF b.i < Len(RecvTask.recv_specs[b.k].tile_specs)
    THEN [b EXCEPT !.i = @ + 1]
    ELSE [b EXCEPT !.k = @ + 1, !.i = 1, !.stage = "alloc"]

\* recv_tile on B, line 230: the buffer is missing and the call raises
RecvFail ==
    /\ run.b.stage = "recv"
    /\ LET recv_spec == RecvTask.recv_specs[run.b.k]
           offset == recv_spec.tile_specs[run.b.i].offset
           r == recv_tile(workers[1], signal, plan.recv_bufs[run.b.k],
                          recv_spec.device_id, offset,
                          PeerPayload(Prod(SliceShape(offset)), 0))
       IN  /\ r.res = "RuntimeError"
           /\ run' = [run EXCEPT !.b.stage = r.res]
    /\ UNCHANGED workers
    /\ UnchangedByReshard

\* a collective send that returns without a receiver: A goes on alone
Transfer_unblocked ==
    /\ run.a.stage = "send"
    /\ run' = [run EXCEPT !.a = [k |-> run.a.k + 1, stage |-> "slice",
                                 to_send |-> <<>>]]
    /\ UNCHANGED workers
    /\ UnchangedByReshard

\* the collective send of A (line 214) meets the collective receive of B
\* (lines 236, 244, 250, 266): the tile A sliced arrives in recv_tile
Transfer ==
    /\ run.a.stage = "send"
    /\ run.b.stage = "recv"
    /\ LET recv_spec == RecvTask.recv_specs[run.b.k]
           r == recv_tile(workers[1], signal, plan.recv_bufs[run.b.k],
                          recv_spec.device_id,
                          recv_spec.tile_specs[run.b.i].offset, run.a.to_send[1])
       IN  /\ r.res = "ok"
           /\ workers' = [workers EXCEPT ![1] = r.w]
           /\ run' = [a |-> [k |-> run.a.k + 1, stage |-> "slice", to_send |-> <<>>],
                      b |-> AfterTile(run.b)]
    /\ UnchangedByReshard

NextReshard ==
    \/ SendSlice
    \/ RecvAllocate
    \/ RecvFail
    \/ Transfer

SpecReshard == InitReshard /\ [][NextReshard]_vars

(***************************************************************************)
(* SpecMesh: the single-threaded driver constructs, launches, syncs and    *)
(* shuts down meshes.  A call of the driver runs as a sequence of steps;   *)
(* `driver` holds its position (pc), the forced flag, the port drawn and   *)
(* the workers that answered or were killed so far (acks); `ret` the call,  *)
(* the mesh it is on, whether that mesh was launched when the call began,  *)
(* and "running", "ok" or the exception raised.  `meshes` are the meshes   *)
(* the caller holds: a constructor that raises leaves none.                *)
(*   mesh     [use_ray, num_hosts, workers, launched, service_server,      *)
(*             server_address]; an absent value (None) is <<>>, a present  *)
(*             value x is <<x>>                                            *)
(*   actor    [mesh, host, server_address, num_hosts, status]: a worker    *)
(*            process; alive, shut (its shutdown call returned), failed    *)
(*            (crashed) or killed; mesh 0 when nobody holds its mesh       *)
(*   service  [port, num_hosts, status]: running or stopped                *)
(***************************************************************************)
MaxMesh == 2          \* meshes constructed in one process

None == <<>>
Some(x) == <<x>>

\* line 432: the used-port set starts out holding None (port 0 here)
NoPort == 0
\* line 513: the lowest port a launch draws
PortLow == 20000
\* line 513: the bound above every port a launch draws
PortHigh == 25000
\* the ports np.random.randint(20000, 25000) is taken to draw: the lowest,
\* the one above it and the highest
Ports == {PortLow, PortLow + 1, PortHigh - 1}

\* the host counts of the cluster-allocated meshes constructed
HostCounts == {1, 2}

(***************************************************************************)
(* The constructors' check of the explicit device-id lists, and the        *)
(* virtual mesh (VirtualPhysicalMesh, lines 1008-1049).                    *)
(*   virtual mesh     [host_ids, host_info, head_ip, num_devices_per_host, *)
(*                     devices, device_strs]                               *)
(*   host descriptor  [NodeManagerAddress]                                 *)
(* A Python list is a sequence; its position x is element x + 1.  A call   *)
(* returns [res, value]: res is "ok" or the exception raised.              *)
(***************************************************************************)
Returned(value) == [res |-> "ok", value |-> value]
Raised(exception) == [res |-> exception, value |-> None]

\* range(a, b)
PyRange(a, b) == [k \in 1..(IF b > a THEN b - a ELSE 0) |-> a + k - 1]

\* the device-id lists taken as given
CheckedDevices_unchecked(devices, host_ids, num_devices_per_host) ==
    IF devices # None THEN Returned(devices[1])
    ELSE Returned([k \in DOMAIN host_ids |-> PyRange(0, num_devices_per_host)])

\* lines 476-489 and 1029-1038: the explicit per-host device-id lists are
\* checked against the host count and num_devices_per_host; absent lists
\* default to range(num_devices_per_host) for every host
CheckedDevices(devices, host_ids, num_devices_per_host) ==
    IF devices # None
    THEN IF Len(devices[1]) # Len(host_ids) THEN Raised("RuntimeError")
         ELSE IF \E k \in DOMAIN devices[1] :
                    Len(devices[1][k]) # num_devices_per_host
         THEN Raised("RuntimeError")
         ELSE Returned(devices[1])
    ELSE Returned([k \in DOMAIN host_ids |-> PyRange(0, num_devices_per_host)])

\* [list[x] for x in indices], or IndexError; a negative x counts from the
\* end of the list (list[-1] is its last element)
Select(list, indices) ==
    IF \E k \in DOMAIN indices :
          indices[k] \notin (0 - Len(list))..(Len(list) - 1)
    THEN Raised("IndexError")
    ELSE Returned([k \in DOMAIN indices |->
                      IF indices[k] >= 0 THEN list[indices[k] + 1]
                      ELSE list[Len(list) + indices[k] + 1]])

RECURSIVE Concat(_)
Concat(lists) ==
    IF lists = <<>> THEN <<>> ELSE Head(lists) \o Concat(Tail(lists))

\* device_id_to_str(host_ip, device_id, device_type), lines 44-46: the string
\* "host_ip:device_type:device_id", kept as its three fields in that order
device_id_to_str(host_ip, device_id, device_type) ==
    <<host_ip, device_type, device_id>>

\* lines 491-497 and 1042-1049: for every host, one string per device id of
\* every host's list
DeviceStrs(host_ids, host_info, devices) ==
    Concat([i \in DOMAIN host_ids |->
               [k \in DOMAIN Concat(devices) |->
                   device_id_to_str(host_info[i].NodeManagerAddress,
                                    Concat(devices)[k], "gpu")]])

\* VirtualPhysicalMesh(host_ids, host_info, head_ip, num_devices_per_host,
\* devices), lines 1018-1049
VirtualPhysicalMesh(host_ids, host_info, head_ip, num_devices_per_host, devices) ==
    LET checked == CheckedDevices(devices, host_ids, num_devices_per_host)
    IN  IF checked.res # "ok" THEN checked
        ELSE IF Len(host_info) < Len(host_ids) THEN Raised("IndexError")
        ELSE Returned([host_ids |-> host_ids, host_info |-> host_info,
                       head_ip |-> head_ip,
                       num_devices_per_host |-> num_devices_per_host,
                       devices |-> checked.value,
                       device_strs |-> DeviceStrs(host_ids, host_info,
                                                  checked.value)])

\* the cluster: three hosts, host_info[x] the descriptor of host x
ClusterHostInfo ==
    <<[NodeManagerAddress |-> "10.0.0.1"], [NodeManagerAddress |-> "10.0.0.2"],
      [NodeManagerAddress |-> "10.0.0.3"]>>

\* the explicit per-host device-id lists and the device counts a mesh is
\* constructed with
ConstructDevices ==
    {None, Some(<<>>), Some(<<<<0>>>>), Some(<<<<0>>, <<0>>>>),
     Some(<<<<0>>, <<0, 1>>>>)}
DeviceCounts == {1, 2}

\* the argument checks of PhysicalDeviceMesh.__init__, lines 460-463 and
\* 475-489, for the hosts 0 .. num_hosts - 1
ArgumentCheck(use_ray, num_hosts, num_devices_per_host, devices) ==
    IF ~use_ray
    THEN IF devices = None \/ devices[1] = <<>> THEN "RuntimeError" ELSE "ok"
    ELSE CheckedDevices(devices, PyRange(0, num_hosts), num_devices_per_host).res

\* PhysicalDeviceMesh.__init__, lines 452-458 and 466-471
NewMesh(use_ray, num_hosts) ==
    [use_ray |-> use_ray, num_hosts |-> IF use_ray THEN num_hosts ELSE 1,
     workers |-> None, launched |-> FALSE, service_server |-> None,
     server_address |-> None]

is_distributed(mesh) == ~(mesh.num_hosts = 1 /\ ~mesh.use_ray)

\* launch_xla_servers without its assertion
launch_xla_servers_again(mesh) == "port"

\* launch_xla_servers: where the call goes first
launch_xla_servers(mesh) ==
    IF mesh.launched THEN "AssertionError" ELSE "port"

\* sync_workers: where the call goes first
sync_workers(mesh) ==
    IF is_distributed(mesh)
    THEN IF mesh.workers = None THEN "TypeError" ELSE "sync"
    ELSE "devices"

\* shutdown that terminates the workers without awaiting them
shutdown_unawaited(mesh, forced) ==
    IF is_distributed(mesh)
    THEN IF ~mesh.launched THEN "return" ELSE "kill"
    ELSE sync_workers(mesh)

\* shutdown: where the call goes first
shutdown(mesh, forced) ==
    IF is_distributed(mesh)
    THEN IF ~mesh.launched THEN "return"
         ELSE IF ~forced THEN "acks" ELSE "kill"
    ELSE sync_workers(mesh)

Idle == [pc |-> "idle", forced |-> FALSE, port |-> NoPort, acks |-> {}]

InitMesh ==
    /\ meshes = <<>>
    /\ used_port_set = {NoPort}
    /\ actors = <<>>
    /\ services = <<>>
    /\ driver = Idle
    /\ ret = NoCall
    /\ workers = <<>> /\ hist = <<>> /\ signal = FALSE
    /\ IdleReshard
    /\ IdleArgs

UnchangedByMesh == UNCHANGED <<workers, signal, hist, run, plan, clientVars>>

M == meshes[ret.uuid]
MeshWorkers == IF M.workers = None THEN <<>> ELSE M.workers[1]
Range(f) == {f[i] : i \in DOMAIN f}

\* a call begins at pc; one that begins at an exception or at "return" is over
Begin(op, m, forced, pc) ==
    /\ driver.pc = "idle"
    /\ ret' = [op |-> op, uuid |-> m, was |-> meshes[m].launched,
               res |-> IF pc \in {"AssertionError", "TypeError"} THEN pc
                       ELSE IF pc = "return" THEN "ok" ELSE "running"]
    /\ driver' = [Idle EXCEPT !.forced = forced,
                              !.pc = IF pc \in {"AssertionError", "TypeError", "return"}
                                     THEN "idle" ELSE pc]
    /\ UNCHANGED <<meshes, used_port_set, actors, services>>
    /\ UnchangedByMesh

\* the driver moves on to pc
Step(pc) == driver' = [driver EXCEPT !.pc = pc, !.acks = {}]

\* the call in progress ends
Return(res) ==
    /\ driver' = Idle
    /\ ret' = [ret EXCEPT !.res = res]

\* the meshes constructed so far: those the caller holds and those whose
\* constructor raised out of its launch, each of which left the worker it
\* had spawned for host 0
Constructed ==
    Len(meshes) + Cardinality({a \in DOMAIN actors :
                                 actors[a].mesh = 0 /\ actors[a].host = 0})

\* PhysicalDeviceMesh(...): lines 452-497; a constructor whose argument check
\* raises leaves no mesh; a cluster-allocated mesh goes on to
\* _launch_xla_servers (line 498)
ConstructWith(use_ray, num_hosts, num_devices_per_host, devices) ==
    LET checked == ArgumentCheck(use_ray, num_hosts, num_devices_per_host, devices)
    IN  /\ driver.pc = "idle"
        /\ Constructed < MaxMesh
        /\ meshes' = IF checked = "ok"
                     THEN Append(meshes, NewMesh(use_ray, num_hosts))
                     ELSE meshes
        /\ ret' = [op |-> "__init__", uuid |-> Len(meshes) + 1, was |-> FALSE,
                   res |-> IF checked # "ok" THEN checked
                           ELSE IF use_ray THEN "running" ELSE "ok",
                   use_ray |-> use_ray]
        /\ driver' = [Idle EXCEPT !.pc = IF use_ray /\ checked = "ok"
                                         THEN "port" ELSE "idle"]
        /\ UNCHANGED <<used_port_set, actors, services>>
        /\ UnchangedByMesh

\* VirtualPhysicalMesh(...) of the hosts 0 .. num_hosts - 1 of the cluster:
\* lines 1018-1049; nothing is launched.  Like the handles, virtual meshes are
\* constructed while the process has built fewer than MaxMesh meshes.
ConstructVirtualWith(num_hosts, num_devices_per_host, devices) ==
    LET host_ids == PyRange(0, num_hosts)
        made == VirtualPhysicalMesh(host_ids, Select(ClusterHostInfo, host_ids).value,
                                    "10.0.0.1", num_devices_per_host, devices)
    IN  /\ driver.pc = "idle"
        /\ Constructed < MaxMesh
        /\ ret' = [op |-> "VirtualPhysicalMesh", uuid |-> 0, was |-> FALSE,
                   res |-> made.res]
        /\ UNCHANGED <<meshes, used_port_set, actors, services, driver>>
        /\ UnchangedByMesh

ConstructVirtual ==
    \E num_hosts \in HostCounts, num_devices_per_host \in DeviceCounts,
       devices \in ConstructDevices :
        ConstructVirtualWith(num_hosts, num_devices_per_host, devices)

Construct ==
    \E use_ray \in BOOLEAN, num_hosts \in HostCounts,
       num_devices_per_host \in DeviceCounts, devices \in ConstructDevices :
        ConstructWith(use_ray, num_hosts, num_devices_per_host, devices)

\* launch_xla_servers(), lines 554-556, on any mesh the caller holds
LaunchXlaServers ==
    \E m \in DOMAIN meshes :
        Begin("launch_xla_servers", m, FALSE, launch_xla_servers(meshes[m]))

SyncWorkers ==
    \E m \in DOMAIN meshes :
        Begin("sync_workers", m, FALSE, sync_workers(meshes[m]))

Shutdown ==
    \E m \in DOMAIN meshes, forced \in BOOLEAN :
        Begin("shutdown", m, forced, shutdown(meshes[m], forced))

\* _launch_xla_servers, lines 511-513: draw a port while the one held is used
DrawPort ==
    /\ driver.pc = "port"
    /\ driver.port \in used_port_set
    /\ \E port \in Ports : driver' = [driver EXCEPT !.port = port]
    /\ UNCHANGED <<ret, meshes, used_port_set, actors, services>>
    /\ UnchangedByMesh

\* a launch that records the port it drew without testing it against the set
RecordPort_untested ==
    /\ driver.pc = "port"
    /\ driver.port # NoPort
    /\ used_port_set' = used_port_set \cup {driver.port}
    /\ meshes' = [meshes EXCEPT ![ret.uuid].server_address = Some(driver.port),
                                ![ret.uuid].service_server = None]
    /\ Step("service")
    /\ UNCHANGED <<ret, actors, services>>
    /\ UnchangedByMesh

\* lines 514-517: the port is recorded and becomes the mesh's server address
RecordPort ==
    /\ driver.pc = "port"
    /\ driver.port \notin used_port_set
    /\ used_port_set' = used_port_set \cup {driver.port}
    /\ meshes' = [meshes EXCEPT ![ret.uuid].server_address = Some(driver.port),
                                ![ret.uuid].service_server = None]
    /\ Step("service")
    /\ UNCHANGED <<ret, actors, services>>
    /\ UnchangedByMesh

\* lines 519-525: the coordination service starts; the worker list is emptied
StartService ==
    /\ driver.pc = "service"
    /\ services' = Append(services, [port |-> driver.port, num_hosts |-> M.num_hosts,
                                     status |-> "running"])
    /\ meshes' = [meshes EXCEPT ![ret.uuid].service_server = Some(Len(services) + 1),
                                ![ret.uuid].workers = Some(<<>>)]
    /\ Step("spawn")
    /\ UNCHANGED <<ret, used_port_set, actors>>
    /\ UnchangedByMesh

\* lines 526-550: one worker is spawned per host, in host order, and is given
\* the server address, the host count and its host index (line 550).  A local
\* mesh has no host descriptors (host_info is None, line 469), so line 544
\* raises TypeError at its first host.
SpawnWorker ==
    /\ driver.pc = "spawn"
    /\ IF Len(MeshWorkers) < M.num_hosts /\ ~M.use_ray
       THEN /\ Return("TypeError")
            /\ UNCHANGED <<meshes, actors>>
       ELSE IF Len(MeshWorkers) < M.num_hosts
       THEN /\ actors' = Append(actors, [mesh |-> ret.uuid, host |-> Len(MeshWorkers),
                                         server_address |-> M.server_address,
                                         num_hosts |-> M.num_hosts,
                                         status |-> "alive"])
            /\ meshes' = [meshes EXCEPT ![ret.uuid].workers =
                             Some(Append(MeshWorkers, Len(actors) + 1))]
            /\ UNCHANGED <<driver, ret>>
       ELSE /\ Step("sync")
            /\ UNCHANGED <<meshes, actors, ret>>
    /\ UNCHANGED <<used_port_set, services>>
    /\ UnchangedByMesh

\* sync_workers, line 863: a live worker answers the sync call
SyncAck ==
    /\ driver.pc = "sync"
    /\ \E a \in Range(MeshWorkers) \ driver.acks :
          /\ actors[a].status \in {"alive", "shut"}
          /\ driver' = [driver EXCEPT !.acks = @ \cup {a}]
    /\ UNCHANGED <<ret, meshes, used_port_set, actors, services>>
    /\ UnchangedByMesh

\* the meshes the caller holds when the call in progress raises: an exception
\* that leaves PhysicalDeviceMesh(...) leaves the caller without the mesh
\* under construction, which is the last one
MeshesHeld ==
    IF ret.op = "__init__" THEN SubSeq(meshes, 1, ret.uuid - 1) ELSE meshes

\* the worker processes then: those of a mesh nobody holds are of mesh 0
Orphaned(as) ==
    IF ret.op = "__init__"
    THEN [a \in DOMAIN as |-> IF as[a].mesh = ret.uuid
                              THEN [as[a] EXCEPT !.mesh = 0] ELSE as[a]]
    ELSE as

\* a failed launch that gives its port back
SyncFail_releasing_port ==
    /\ driver.pc = "sync"
    /\ \E a \in Range(MeshWorkers) \ driver.acks :
          /\ actors[a].status \in {"alive", "failed", "killed"}
          /\ actors' = Orphaned([actors EXCEPT ![a].status =
                                    IF @ = "alive" THEN "failed" ELSE @])
    /\ Return("RayError")
    /\ meshes' = MeshesHeld
    /\ used_port_set' = IF ret.op = "sync_workers" THEN used_port_set
                        ELSE used_port_set \ {driver.port}
    /\ UNCHANGED services
    /\ UnchangedByMesh

\* line 863: a worker has crashed or crashes, and ray.get raises; raised by
\* the launch of a constructor (line 498) it leaves the constructor too
SyncFail ==
    /\ driver.pc = "sync"
    /\ \E a \in Range(MeshWorkers) \ driver.acks :
          /\ actors[a].status \in {"alive", "failed", "killed"}
          /\ actors' = Orphaned([actors EXCEPT ![a].status =
                                    IF @ = "alive" THEN "failed" ELSE @])
    /\ Return("RayError")
    /\ meshes' = MeshesHeld
    /\ UNCHANGED <<used_port_set, services>>
    /\ UnchangedByMesh

\* a launch that sets launched without awaiting the workers' answers
SyncDone_unawaited ==
    /\ driver.pc = "sync"
    /\ IF ret.op = "sync_workers"
       THEN Return("ok") /\ UNCHANGED meshes
       ELSE /\ meshes' = [meshes EXCEPT ![ret.uuid].launched = TRUE]
            /\ Return("ok")
    /\ UNCHANGED <<used_port_set, actors, services>>
    /\ UnchangedByMesh

\* every worker answered: sync_workers returns; a launch sets launched (line 552)
SyncDone ==
    /\ driver.pc = "sync"
    /\ Range(MeshWorkers) \subseteq driver.acks
    /\ IF ret.op = "sync_workers"
       THEN Return("ok") /\ UNCHANGED meshes
       ELSE /\ meshes' = [meshes EXCEPT ![ret.uuid].launched = TRUE]
            /\ Return("ok")
    /\ UNCHANGED <<used_port_set, actors, services>>
    /\ UnchangedByMesh

\* sync_workers on a local mesh, lines 865-866: the local devices are drained
SyncDevices ==
    /\ driver.pc = "devices"
    /\ Return("ok")
    /\ UNCHANGED <<meshes, used_port_set, actors, services>>
    /\ UnchangedByMesh

\* shutdown, line 874: a live worker runs its shutdown and acknowledges
ShutdownAck ==
    /\ driver.pc = "acks"
    /\ \E a \in Range(MeshWorkers) \ driver.acks :
          /\ actors[a].status = "alive"
          /\ actors' = [actors EXCEPT ![a].status = "shut"]
          /\ driver' = [driver EXCEPT !.acks = @ \cup {a}]
    /\ UNCHANGED <<ret, meshes, used_port_set, services>>
    /\ UnchangedByMesh

\* line 874: a worker's shutdown fails (it crashes, has crashed, or has
\* released its maps before) and ray.get raises; the shutdown calls issued to
\* the other workers still run
ShutdownFail ==
    /\ driver.pc = "acks"
    /\ \E a \in Range(MeshWorkers) \ driver.acks :
          actors' = [b \in DOMAIN actors |->
                        IF b = a
                        THEN [actors[b] EXCEPT !.status =
                                 IF @ = "alive" THEN "failed" ELSE @]
                        ELSE IF b \in Range(MeshWorkers) \ driver.acks
                                /\ actors[b].status = "alive"
                        THEN [actors[b] EXCEPT !.status = "shut"]
                        ELSE actors[b]]
    /\ Return("RayError")
    /\ UNCHANGED <<meshes, used_port_set, services>>
    /\ UnchangedByMesh

\* line 874: every worker acknowledged
ShutdownAcked ==
    /\ driver.pc = "acks"
    /\ Range(MeshWorkers) \subseteq driver.acks
    /\ Step("kill")
    /\ UNCHANGED <<ret, meshes, used_port_set, actors, services>>
    /\ UnchangedByMesh

\* lines 875-877: the workers are killed in list order, then the list is dropped
KillWorker ==
    /\ driver.pc = "kill"
    /\ IF driver.acks # Range(MeshWorkers)
       THEN LET a == CHOOSE a \in Range(MeshWorkers) \ driver.acks :
                        \A b \in Range(MeshWorkers) \ driver.acks : a <= b
            IN  /\ actors' = [actors EXCEPT ![a].status = "killed"]
                /\ driver' = [driver EXCEPT !.acks = @ \cup {a}]
                /\ UNCHANGED meshes
       ELSE /\ meshes' = [meshes EXCEPT ![ret.uuid].workers = None]
            /\ Step("stop")
            /\ UNCHANGED actors
    /\ UNCHANGED <<ret, used_port_set, services>>
    /\ UnchangedByMesh

\* lines 879-880: the coordination service is shut down and forgotten
StopService ==
    /\ driver.pc = "stop"
    /\ services' = [services EXCEPT ![M.service_server[1]].status = "stopped"]
    /\ meshes' = [meshes EXCEPT ![ret.uuid].service_server = None]
    /\ Step("unlaunch")
    /\ UNCHANGED <<ret, used_port_set, actors>>
    /\ UnchangedByMesh

\* line 881
Unlaunch ==
    /\ driver.pc = "unlaunch"
    /\ meshes' = [meshes EXCEPT ![ret.uuid].launched = FALSE]
    /\ Return("ok")
    /\ UNCHANGED <<used_port_set, actors, services>>
    /\ UnchangedByMesh

NextMesh ==
    \/ Construct
    \/ ConstructVirtual
    \/ LaunchXlaServers
    \/ SyncWorkers
    \/ Shutdown
    \/ DrawPort
    \/ RecordPort
    \/ StartService
    \/ SpawnWorker
    \/ SyncAck
    \/ SyncFail
    \/ SyncDone
    \/ SyncDevices
    \/ ShutdownAck
    \/ ShutdownFail
    \/ ShutdownAcked
    \/ KillWorker
    \/ StopService
    \/ Unlaunch

SpecMesh == InitMesh /\ [][NextMesh]_vars

(***************************************************************************)
(* SpecThreads: driver threads that each construct a cluster-allocated     *)
(* mesh at the same time, with no lock around the launch.  Thread t        *)
(* launches mesh t; `driver[t]` holds its position in lines 511-516 of     *)
(* _launch_xla_servers and its local variable port.  The membership test   *)
(* of the while loop and used_port_set.add are separate steps, and the     *)
(* threads interleave between them.  Earlier launches of the process may   *)
(* have recorded ports already; with every port of the window recorded the *)
(* loop draws for ever.                                                    *)
(***************************************************************************)
NumThreads == 2
Threads == 1..NumThreads

InitThreads ==
    /\ meshes = [t \in Threads |-> NewMesh(TRUE, 1)]
    /\ \E used \in SUBSET Ports : used_port_set = {NoPort} \cup used
    /\ driver = [t \in Threads |-> [pc |-> "port", port |-> NoPort]]
    /\ actors = <<>>
    /\ services = <<>>
    /\ ret = NoCall
    /\ workers = <<>> /\ hist = <<>> /\ signal = FALSE
    /\ IdleReshard
    /\ IdleArgs

\* lines 512-513: the test finds the port in the set, and another is drawn
ThreadDraw(t) ==
    /\ driver[t].pc = "port"
    /\ driver[t].port \in used_port_set
    /\ \E port \in Ports : driver' = [driver EXCEPT ![t].port = port]
    /\ UNCHANGED <<ret, meshes, used_port_set, actors, services>>
    /\ UnchangedByMesh

\* line 512: the test finds the port free, and the loop is left
ThreadTest(t) ==
    /\ driver[t].pc = "port"
    /\ driver[t].port \notin used_port_set
    /\ driver' = [driver EXCEPT ![t].pc = "add"]
    /\ UNCHANGED <<ret, meshes, used_port_set, actors, services>>
    /\ UnchangedByMesh

\* a launch that tests the port again when it inserts it
ThreadAdd_retesting(t) ==
    /\ driver[t].pc = "add"
    /\ IF driver[t].port \in used_port_set
       THEN /\ driver' = [driver EXCEPT ![t].pc = "port"]
            /\ UNCHANGED <<meshes, used_port_set>>
       ELSE /\ used_port_set' = used_port_set \cup {driver[t].port}
            /\ meshes' = [meshes EXCEPT ![t].server_address = Some(driver[t].port)]
            /\ driver' = [driver EXCEPT ![t].pc = "done"]
    /\ UNCHANGED <<ret, actors, services>>
    /\ UnchangedByMesh

\* lines 514-516: the port is inserted and becomes the mesh's server address
ThreadAdd(t) ==
    /\ driver[t].pc = "add"
    /\ used_port_set' = used_port_set \cup {driver[t].port}
    /\ meshes' = [meshes EXCEPT ![t].server_address = Some(driver[t].port)]
    /\ driver' = [driver EXCEPT ![t].pc = "done"]
    /\ UNCHANGED <<ret, actors, services>>
    /\ UnchangedByMesh

NextThreads ==
    \/ \E t \in Threads : ThreadDraw(t)
    \/ \E t \in Threads : ThreadTest(t)
    \/ \E t \in Threads : ThreadAdd(t)

SpecThreads == InitThreads /\ [][NextThreads]_vars

(***************************************************************************)
(* SpecArgs: the driver and the workers of one cluster-allocated mesh that *)
(* has been launched.  The driver shards arguments onto the mesh and       *)
(* deletes remote buffers and executables; every call of the driver is one *)
(* step.  A request issued with .remote() and not awaited joins            *)
(* `requests`; a worker serves the requests sent to it in the order they   *)
(* were issued.  A request the driver awaits (ray.get) is served within    *)
(* the driver's step, after the requests the same worker was sent before.  *)
(* The driver starts a call when the workers have served what it sent.     *)
(*   request  [worker, op, uuid, device_id, data]                          *)
(*   c        the driver's view while a call runs: worker states, pending  *)
(*            requests, array values, uuid counter, the events of the call *)
(*            so far (trace), "ok" or the exception raised (res) and the   *)
(*            value the last step returned (value)                        *)
(***************************************************************************)
\* alpa.mesh_executable.RemoteBufferRef, which draws the next uuid of a
\* process-wide counter
RemoteBufferRef(uuid, host_id, device_id, dtype) ==
    [uuid |-> uuid, host_id |-> host_id, device_id |-> device_id, dtype |-> dtype]

Request(worker, op, uuid, device_id, data) ==
    [worker |-> worker, op |-> op, uuid |-> uuid, device_id |-> device_id,
     data |-> data]

\* statement sequencing: G applied to the value of v
Only(S) == CHOOSE y \in S : TRUE
Then(v, G(_)) == Only({G(w) : w \in {v}})

Now ==
    [workers |-> workers, requests |-> requests, arrays |-> arrays,
     counter |-> remote_buffer_counter, trace |-> <<>>, res |-> "ok",
     value |-> <<>>]

Event(ev, x) == [ev |-> ev, of |-> x]

\* worker.method.remote(...): the request is issued and not awaited
Remote(c, rq) ==
    [c EXCEPT !.requests = Append(@, rq), !.trace = Append(@, Event("remote", rq))]

\* a worker serves one request; the memory queries synchronize its devices
\* and read a counter
ServeRequest(w, rq) ==
    CASE rq.op = "put_buffer" -> put_buffer(w, rq.uuid, rq.device_id, rq.data)
      [] rq.op = "put_non_zero_buffer" ->
            put_non_zero_buffer(w, rq.uuid, rq.device_id, rq.data.shape, rq.data.dtype)
      [] rq.op = "get_buffers" -> get_buffers(w, [iter |-> FALSE, ids |-> <<rq.uuid>>])
      [] rq.op = "delete_buffers" ->
            delete_buffers(w, [iter |-> FALSE, ids |-> <<rq.uuid>>])
      [] rq.op = "delete_executable" -> delete_executable(w, rq.uuid)
      [] OTHER -> Outcome(w, "ok", <<>>, 0)

\* worker h serves every request of the queue that was sent to it, in order
RECURSIVE Drain(_, _, _)
Drain(ws, queue, h) ==
    IF queue = <<>> THEN [workers |-> ws, requests |-> <<>>]
    ELSE IF Head(queue).worker = h
    THEN Drain([ws EXCEPT ![h] = ServeRequest(@, Head(queue)).w], Tail(queue), h)
    ELSE LET r == Drain(ws, Tail(queue), h)
         IN  [r EXCEPT !.requests = <<Head(queue)>> \o @]

\* ray.get([... .remote() ...]): the requests are issued and awaited in list
\* order; a request that raises at its worker makes ray.get raise, and the
\* requests issued after it stay pending
RECURSIVE ray_get(_, _)
ray_get(c, rqs) ==
    IF rqs = <<>> \/ c.res # "ok" THEN [c EXCEPT !.requests = @ \o rqs]
    ELSE LET rq == Head(rqs)
             d == Drain(c.workers, c.requests, rq.worker)
             r == ServeRequest(d.workers[rq.worker], rq)
         IN  ray_get([c EXCEPT !.workers = [d.workers EXCEPT ![rq.worker] = r.w],
                               !.requests = d.requests,
                               !.trace = Append(@, Event("get", rq)),
                               !.value = IF r.res = "ok" THEN Append(@, r.out) ELSE @,
                               !.res = IF r.res = "ok" THEN "ok" ELSE "RayTaskError"],
                     Tail(rqs))

\* the mesh after _launch_xla_servers: worker handle h is the worker of host h
LaunchedMesh(num_hosts, num_devices_per_host) ==
    [use_ray |-> TRUE, num_hosts |-> num_hosts,
     num_devices_per_host |-> num_devices_per_host,
     workers |-> Some([i \in 1..num_hosts |-> i - 1]), launched |-> TRUE,
     service_server |-> Some(1), server_address |-> Some(PortLow)]

\* the loop of delete_remote_buffers, line 706
RECURSIVE DeleteEachRef(_, _, _)
DeleteEachRef(c, mesh, buf_refs) ==
    IF buf_refs = <<>> \/ c.res # "ok" THEN c
    ELSE IF Head(buf_refs).host_id >= Len(mesh.workers[1])
    THEN [c EXCEPT !.res = "IndexError"]
    ELSE DeleteEachRef(
             Remote(c, Request(mesh.workers[1][Head(buf_refs).host_id + 1],
                               "delete_buffers", Head(buf_refs).uuid, 0, NoTensor)),
             mesh, Tail(buf_refs))

\* delete_remote_buffers without the test of line 703
delete_remote_buffers_untested(c, mesh, buf_refs) ==
    IF mesh.workers = None THEN [c EXCEPT !.res = "TypeError"]
    ELSE DeleteEachRef(c, mesh, buf_refs)

\* the ray module is imported (line 12), so `not ray` of line 701 is false
delete_remote_buffers(c, mesh, buf_refs) ==
    IF mesh.workers = None \/ ~ray_initialized THEN c
    ELSE DeleteEachRef(c, mesh, buf_refs)

\* the loop of delete_remote_executable, line 794, from host i on
RECURSIVE DeleteOnEachHost(_, _, _, _)
DeleteOnEachHost(c, mesh, exec_uuid, i) ==
    IF i >= mesh.num_hosts THEN c
    ELSE DeleteOnEachHost(
             Remote(c, Request(mesh.workers[1][i + 1], "delete_executable",
                               exec_uuid, 0, NoTensor)),
             mesh, exec_uuid, i + 1)

delete_remote_executable(c, mesh, exec_uuid) ==
    IF mesh.workers = None \/ ~ray_initialized THEN c
    ELSE DeleteOnEachHost(c, mesh, exec_uuid, 0)

(***************************************************************************)
(* The values the driver holds.  `arrays` maps an array id to              *)
(*   [kind |-> "ndarray", value]              a host array                 *)
(*   [kind |-> "DeviceArray", value, deleted] an array on a local device   *)
(*   [kind |-> "ShapedArray", shape, dtype]   an abstract descriptor       *)
(*   a DistributedArray or a ReplicatedDistributedArray (below).           *)
(* A mesh is named by its id, an array inside another by its array id.     *)
(***************************************************************************)
NdArray(value) == [kind |-> "ndarray", value |-> value]

DeviceArray(value) == [kind |-> "DeviceArray", value |-> value, deleted |-> FALSE]

ShapedArray(shape, dtype) == [kind |-> "ShapedArray", shape |-> shape, dtype |-> dtype]

\* DistributedArray.__init__; device_buffers is an attribute only delete() sets
DistributedArray(device_mesh, aval, remote_buffers, indices) ==
    [kind |-> "DistributedArray", device_mesh |-> device_mesh, aval |-> aval,
     remote_buffers |-> remote_buffers, indices |-> indices,
     _npy_value |-> None, _one_replica_buffer_indices |-> None,
     device_buffers |-> "unset"]

\* numpy x[index] for a tuple of slices: the region in row-major order
GetItem(x, index) ==
    LET pos == SortedSeq(SliceFlat(index, x.shape))
    IN  [device |-> 0, dtype |-> x.dtype, shape |-> SliceShape(index),
         data |-> [k \in 1..Len(pos) |-> x.data[pos[k] + 1]]]

\* numpy x[index] = y
SetItem(x, index, y) ==
    LET pos == SortedSeq(SliceFlat(index, x.shape))
        At(f) == CHOOSE k \in 1..Len(pos) : pos[k] = f
    IN  [x EXCEPT !.data =
            [j \in 1..Len(x.data) |->
                IF \E k \in 1..Len(pos) : pos[k] = j - 1
                THEN y.data[At(j - 1)] ELSE x.data[j]]]

\* np.empty: what the elements hold is not defined; Uninitialized stands for it
Uninitialized == -1
Empty(shape, dtype) ==
    [device |-> 0, dtype |-> dtype, shape |-> shape,
     data |-> [i \in 1..Size(shape) |-> Uninitialized]]

\* jax.interpreters.pxla._hashable_index: the (start, stop) pairs of the slices
_hashable_index(index) ==
    [d \in 1..Len(index) |-> <<index[d].start, index[d].stop>>]

\* the loop of one_replica_buffer_indices with the indices themselves in the
\* set of those seen
RECURSIVE FirstSeen_unhashed(_, _, _)
FirstSeen_unhashed(indices, i, seen_index_hashes) ==
    IF i >= Len(indices) THEN <<>>
    ELSE IF indices[i + 1] \notin seen_index_hashes
    THEN <<i>> \o FirstSeen_unhashed(indices, i + 1,
                                     seen_index_hashes \cup {indices[i + 1]})
    ELSE FirstSeen_unhashed(indices, i + 1, seen_index_hashes)

\* the loop of one_replica_buffer_indices, lines 918-922, from position i on
RECURSIVE FirstSeen(_, _, _)
FirstSeen(indices, i, seen_index_hashes) ==
    IF i >= Len(indices) THEN <<>>
    ELSE LET hashed_index == _hashable_index(indices[i + 1])
         IN  IF hashed_index \notin seen_index_hashes
             THEN <<i>> \o FirstSeen(indices, i + 1, seen_index_hashes \cup {hashed_index})
             ELSE FirstSeen(indices, i + 1, seen_index_hashes)

\* the property one_replica_buffer_indices: the array after the access; the
\* value returned is what _one_replica_buffer_indices then holds
one_replica_buffer_indices(array) ==
    IF array._one_replica_buffer_indices = None
    THEN [array EXCEPT !._one_replica_buffer_indices =
                           Some(FirstSeen(array.indices, 0, {}))]
    ELSE array

\* get_remote_buffers whose requests are served ahead of the requests their
\* workers were sent before
get_remote_buffers_overtaking(c, mesh, buf_refs) ==
    LET got == [i \in 1..Len(buf_refs) |->
                   ServeRequest(c.workers[buf_refs[i].host_id],
                                Request(buf_refs[i].host_id, "get_buffers",
                                        buf_refs[i].uuid, 0, NoTensor))]
    IN  IF \E i \in 1..Len(buf_refs) : got[i].res # "ok"
        THEN [c EXCEPT !.res = "RayTaskError"]
        ELSE [c EXCEPT !.value = [i \in 1..Len(buf_refs) |-> got[i].out[1]]]

\* the loop of get_remote_buffers, lines 692-694: the requests are issued one
\* by one; a ref of a host the mesh has no worker for raises where the loop
\* meets it, the requests before it issued
RECURSIVE GetEachRef(_, _, _)
GetEachRef(c, mesh, buf_refs) ==
    IF buf_refs = <<>> \/ c.res # "ok" THEN c
    ELSE IF mesh.workers = None THEN [c EXCEPT !.res = "TypeError"]
    ELSE IF Head(buf_refs).host_id >= Len(mesh.workers[1])
    THEN [c EXCEPT !.res = "IndexError"]
    ELSE GetEachRef(
             Remote(c, Request(mesh.workers[1][Head(buf_refs).host_id + 1],
                               "get_buffers", Head(buf_refs).uuid, 0, NoTensor)),
             mesh, Tail(buf_refs))

\* get_remote_buffers, lines 689-696: one get_buffers request per ref, then
\* ray.get of the requests issued
get_remote_buffers(c, mesh, buf_refs) ==
    LET issued == GetEachRef(c, mesh, buf_refs)
        before == Len(issued.requests) - Len(buf_refs)
    IN  IF issued.res # "ok" THEN issued
        ELSE LET g == ray_get([issued EXCEPT !.requests = SubSeq(@, 1, before),
                                             !.value = <<>>],
                              SubSeq(issued.requests, before + 1,
                                     Len(issued.requests)))
             IN  [g EXCEPT !.value = [i \in 1..Len(@) |-> @[i][1]]]

\* the loop of _value, lines 933-934
RECURSIVE WriteEach(_, _, _, _, _)
WriteEach(npy_value, indices, one, fetched_np_buffers, ct) ==
    IF ct >= Len(one) THEN npy_value
    ELSE WriteEach(SetItem(npy_value, indices[one[ct + 1] + 1],
                           fetched_np_buffers[ct + 1]),
                   indices, one, fetched_np_buffers, ct + 1)

\* _value without the test of the cached host value
_value_refetching(c, a) ==
    LET array == one_replica_buffer_indices(c.arrays[a])
        one == array._one_replica_buffer_indices[1]
        g == get_remote_buffers(
                 [c EXCEPT !.arrays[a] = array], meshes[array.device_mesh],
                 [k \in 1..Len(one) |-> array.remote_buffers[one[k] + 1]])
        npy_value == WriteEach(Empty(array.aval.shape, array.aval.dtype),
                               array.indices, one, g.value, 0)
    IN  IF g.res # "ok" THEN g
        ELSE [g EXCEPT !.arrays[a]._npy_value = Some(npy_value),
                       !.value = npy_value]

\* DistributedArray._value of array a: c.value is the host value
_value(c, a) ==
    IF c.arrays[a]._npy_value # None
    THEN [c EXCEPT !.value = c.arrays[a]._npy_value[1]]
    ELSE LET array == one_replica_buffer_indices(c.arrays[a])
             one == array._one_replica_buffer_indices[1]
             g == get_remote_buffers(
                      [c EXCEPT !.arrays[a] = array], meshes[array.device_mesh],
                      [k \in 1..Len(one) |-> array.remote_buffers[one[k] + 1]])
             npy_value == WriteEach(Empty(array.aval.shape, array.aval.dtype),
                                    array.indices, one, g.value, 0)
         IN  IF g.res # "ok" THEN g
             ELSE [g EXCEPT !.arrays[a]._npy_value = Some(npy_value),
                            !.value = npy_value]

\* DistributedArray.delete, lines 906-910: `del buf` unbinds the loop variable
\* only; remote_buffers keeps every handle, and no worker is called
DistributedArray_delete(array) ==
    [array EXCEPT !.device_buffers = None, !._npy_value = None]

\* arg.delete() of line 749; a device array gives up its device buffer
Delete(c, a) ==
    [c EXCEPT !.arrays[a] =
                  IF @.kind = "DistributedArray" THEN DistributedArray_delete(@)
                  ELSE [@ EXCEPT !.deleted = TRUE],
              !.trace = Append(@, Event("delete", a))]

\* the loop of ReplicatedDistributedArray.__init__, lines 965-967: zip stops
\* at the end of the shorter list
RECURSIVE ZipInto(_, _, _)
ZipInto(r, device_meshes, distributed_arrays) ==
    IF device_meshes = <<>> \/ distributed_arrays = <<>> THEN r
    ELSE ZipInto([r EXCEPT
                     !._mesh_array_map = DictSet(@, Head(device_meshes),
                                                 Head(distributed_arrays)),
                     !._array_mesh_map = DictSet(@, Head(distributed_arrays),
                                                 Head(device_meshes))],
                 Tail(device_meshes), Tail(distributed_arrays))

\* ReplicatedDistributedArray.__init__ over the arrays `pool`; the replica
\* (line 993) is the value of the key inserted first, and there is none when
\* a list is empty
ReplicatedDistributedArray(pool, device_meshes, distributed_arrays) ==
    LET r == ZipInto([kind |-> "ReplicatedDistributedArray",
                      _mesh_array_map |-> EmptyMap, _array_mesh_map |-> EmptyMap,
                      aval |-> None],
                     device_meshes, distributed_arrays)
    IN  IF device_meshes = <<>> \/ distributed_arrays = <<>>
        THEN [res |-> "IndexError", value |-> r]
        ELSE [res |-> "ok",
              value |-> [r EXCEPT !.aval =
                            Some(pool[r._mesh_array_map[Head(device_meshes)]].aval)]]

is_replicated_on_mesh(array, mesh) == mesh \in DOMAIN array._mesh_array_map

\* add_replica that tests the array only
add_replica_untested(r, mesh, array) ==
    IF array \in DOMAIN r._array_mesh_map THEN [res |-> "RuntimeError", value |-> r]
    ELSE [res |-> "ok",
          value |-> [r EXCEPT !._mesh_array_map = DictSet(@, mesh, array),
                              !._array_mesh_map = DictSet(@, array, mesh)]]

\* ReplicatedDistributedArray.add_replica: the replicated array afterwards
add_replica(r, mesh, array) ==
    IF array \in DOMAIN r._array_mesh_map THEN [res |-> "RuntimeError", value |-> r]
    ELSE IF mesh \in DOMAIN r._mesh_array_map
    THEN [res |-> "RuntimeError", value |-> r]
    ELSE [res |-> "ok",
          value |-> [r EXCEPT !._mesh_array_map = DictSet(@, mesh, array),
                              !._array_mesh_map = DictSet(@, array, mesh)]]

(***************************************************************************)
(* The shard-argument handlers (lines 1259-1335).  A handler is given the  *)
(* array id a (0 for a value that is in no variable of the caller), the    *)
(* value x and the per-shard indices; c.value is the list of buffer refs.  *)
(***************************************************************************)
\* _device_mesh_put that walks the devices first and the hosts inside
RECURSIVE _device_mesh_put_device_major(_, _, _, _, _)
_device_mesh_put_device_major(c, mesh, shards, pt, buf_refs) ==
    IF pt >= mesh.num_hosts * mesh.num_devices_per_host
    THEN [c EXCEPT !.value = buf_refs]
    ELSE IF pt >= Len(shards) THEN [c EXCEPT !.res = "IndexError", !.value = <<>>]
    ELSE LET host_id == pt % mesh.num_hosts
             device_id == pt \div mesh.num_hosts
             buf_ref == RemoteBufferRef(c.counter + 1, host_id, device_id,
                                        shards[pt + 1].dtype)
             made == [c EXCEPT !.counter = @ + 1,
                               !.trace = Append(@, Event("RemoteBufferRef", buf_ref))]
             rq == Request(mesh.workers[1][host_id + 1],
                           IF use_dummy_value_for_benchmarking
                           THEN "put_non_zero_buffer" ELSE "put_buffer",
                           buf_ref.uuid, device_id,
                           IF use_dummy_value_for_benchmarking
                           THEN [shards[pt + 1] EXCEPT !.data = <<>>]
                           ELSE shards[pt + 1])
         IN  _device_mesh_put_device_major(Remote(made, rq), mesh, shards, pt + 1,
                                           Append(buf_refs, buf_ref))

\* _device_mesh_put from shard pt on: one ref and one put request per device
RECURSIVE _device_mesh_put(_, _, _, _, _)
_device_mesh_put(c, mesh, shards, pt, buf_refs) ==
    IF pt >= mesh.num_hosts * mesh.num_devices_per_host
    THEN [c EXCEPT !.value = buf_refs]
    ELSE IF pt >= Len(shards) THEN [c EXCEPT !.res = "IndexError", !.value = <<>>]
    ELSE LET host_id == pt \div mesh.num_devices_per_host
             device_id == pt % mesh.num_devices_per_host
             buf_ref == RemoteBufferRef(c.counter + 1, host_id, device_id,
                                        shards[pt + 1].dtype)
             made == [c EXCEPT !.counter = @ + 1,
                               !.trace = Append(@, Event("RemoteBufferRef", buf_ref))]
             rq == Request(mesh.workers[1][host_id + 1],
                           IF use_dummy_value_for_benchmarking
                           THEN "put_non_zero_buffer" ELSE "put_buffer",
                           buf_ref.uuid, device_id,
                           IF use_dummy_value_for_benchmarking
                           THEN [shards[pt + 1] EXCEPT !.data = <<>>]
                           ELSE shards[pt + 1])
         IN  _device_mesh_put(Remote(made, rq), mesh, shards, pt + 1,
                              Append(buf_refs, buf_ref))

_shard_array(c, x, mesh, indices) ==
    _device_mesh_put(c, mesh, [i \in 1..Len(indices) |-> GetItem(x.value, indices[i])],
                     0, <<>>)

\* the shard shapes are computed from the slice bounds; no data is touched
_shard_abstract_array(c, x, mesh, indices) ==
    IF ~use_dummy_value_for_benchmarking \/
       \E i \in 1..Len(indices) : Len(indices[i]) # Len(x.shape)
    THEN [c EXCEPT !.res = "AssertionError", !.value = <<>>]
    ELSE _device_mesh_put(c, mesh,
             [i \in 1..Len(indices) |->
                 [device |-> 0, dtype |-> x.dtype, shape |-> SliceShape(indices[i]),
                  data |-> <<>>]], 0, <<>>)

\* _multi_slice of the array, or under benchmarking the shapes of its slices
_shard_device_array(c, array, mesh, indices) ==
    _device_mesh_put(c, mesh,
        [i \in 1..Len(indices) |->
            IF use_dummy_value_for_benchmarking
            THEN [GetItem(array.value, indices[i]) EXCEPT !.data = <<>>]
            ELSE GetItem(array.value, indices[i])], 0, <<>>)

\* the handler of a DistributedArray looks the registry up again, with the
\* kind of the array's host value
_shard_distributed_array(c, a, mesh, indices) ==
    LET v == _value(c, a)
    IN  IF v.res # "ok" THEN [v EXCEPT !.value = <<>>]
        ELSE _shard_array([v EXCEPT !.trace = Append(@, Event("dispatch", "ndarray"))],
                          NdArray(v.value), mesh, indices)

\* shard_arg_handlers[type(arg)](arg, self, indices), line 744
shard_arg_handlers(c, a, arg, mesh, indices) ==
    LET d == [c EXCEPT !.trace = Append(@, Event("dispatch", arg.kind))]
    IN  CASE arg.kind = "ndarray" -> _shard_array(d, arg, mesh, indices)
          [] arg.kind = "ShapedArray" -> _shard_abstract_array(d, arg, mesh, indices)
          [] arg.kind = "DeviceArray" -> _shard_device_array(d, arg, mesh, indices)
          [] arg.kind = "DistributedArray" ->
                _shard_distributed_array(d, a, mesh, indices)
          [] OTHER -> [c EXCEPT !.res = "KeyError", !.value = <<>>]

\* jax xla.canonicalize_dtype with 64-bit types disabled; the identity for a
\* DistributedArray (line 947)
canonicalize_dtype(arg) ==
    IF arg.kind \in {"ndarray", "DeviceArray"}
    THEN [arg EXCEPT !.value.dtype = CASE @ = "float64" -> "float32"
                                       [] @ = "int64" -> "int32"
                                       [] OTHER -> @]
    ELSE arg

\* one awaited memory query to worker 0 (lines 738-741 and 750-753)
MemoryQuery(c, mesh, op) ==
    ray_get([c EXCEPT !.value = <<>>],
            <<Request(mesh.workers[1][1], op, 0, 0, NoTensor)>>)

\* the slow path of shard_args, lines 733-753, one statement after another;
\* c.value is the new buf_refs
SlowPath(c, m, a, indices, donated) ==
    IF meshes[m].workers = None THEN [c EXCEPT !.res = "TypeError"]
    ELSE LET mesh == meshes[m]
             arg == IF c.arrays[a].kind = "ShapedArray" THEN c.arrays[a]
                    ELSE canonicalize_dtype(c.arrays[a])
         IN  Then(MemoryQuery(c, mesh, "get_memory_allocated"), LAMBDA queried :
             Then(MemoryQuery(queried, mesh, "get_max_memory_allocated"), LAMBDA before :
                 IF before.res # "ok" THEN before ELSE
             Then(shard_arg_handlers(before, a, arg, mesh, indices), LAMBDA sharded :
                 IF sharded.res # "ok" THEN sharded ELSE
             Then(IF donated /\ arg.kind \in {"DeviceArray", "DistributedArray"}
                  THEN Delete(sharded, a) ELSE sharded, LAMBDA deleted :
             Then(MemoryQuery(deleted, mesh, "get_memory_allocated"), LAMBDA requeried :
             Then(MemoryQuery(requeried, mesh, "get_max_memory_allocated"), LAMBDA after :
                 [after EXCEPT !.value = sharded.value]))))))

\* get_replica_on_mesh that falls back on a replica of another mesh
get_replica_on_mesh_any(array, mesh) ==
    IF mesh \notin DOMAIN array._mesh_array_map
    THEN [res |-> "ok",
          value |-> array._mesh_array_map[
                        CHOOSE k \in DOMAIN array._mesh_array_map : TRUE]]
    ELSE [res |-> "ok", value |-> array._mesh_array_map[mesh]]

\* ReplicatedDistributedArray.get_replica_on_mesh: the replica's array id
get_replica_on_mesh(array, mesh) ==
    IF ~is_replicated_on_mesh(array, mesh)
    THEN [res |-> "RuntimeError", value |-> 0]
    ELSE [res |-> "ok", value |-> array._mesh_array_map[mesh]]

\* shard_args that dispatches every argument
RECURSIVE shard_args_dispatching(_, _, _, _, _, _)
shard_args_dispatching(c, m, arg_indices, donated_invars, args, input_bufs) ==
    IF args = <<>> \/ arg_indices = <<>> \/ donated_invars = <<>>
    THEN [c EXCEPT !.value = input_bufs]
    ELSE LET s == SlowPath(c, m, Head(args), Head(arg_indices), Head(donated_invars))
         IN  IF s.res # "ok" THEN [s EXCEPT !.value = <<>>]
             ELSE shard_args_dispatching(s, m, Tail(arg_indices), Tail(donated_invars),
                                         Tail(args), Append(input_bufs, s.value))

\* shard_args on the distributed mesh m, lines 722-759, from the argument at
\* the head of args on; input_bufs holds the lists of the arguments before
RECURSIVE shard_args(_, _, _, _, _, _)
shard_args(c, m, arg_indices, donated_invars, args, input_bufs) ==
    IF args = <<>> \/ arg_indices = <<>> \/ donated_invars = <<>>
    THEN [c EXCEPT !.value = input_bufs]
    ELSE LET arg == c.arrays[Head(args)]
             indices == Head(arg_indices)
             rest(d, buf_refs) ==
                 shard_args(d, m, Tail(arg_indices), Tail(donated_invars), Tail(args),
                            Append(input_bufs, buf_refs))
         IN  IF arg.kind = "DistributedArray" /\ arg.indices = indices
             THEN rest(c, arg.remote_buffers)
             ELSE IF arg.kind = "ReplicatedDistributedArray"
             THEN LET replica == get_replica_on_mesh(arg, m)
                  IN  IF replica.res # "ok"
                      THEN [c EXCEPT !.res = replica.res, !.value = <<>>]
                      ELSE IF c.arrays[replica.value].indices # indices
                      THEN [c EXCEPT !.res = "AssertionError", !.value = <<>>]
                      ELSE rest(c, c.arrays[replica.value].remote_buffers)
             ELSE LET s == SlowPath(c, m, Head(args), indices, Head(donated_invars))
                  IN  IF s.res # "ok" THEN [s EXCEPT !.value = <<>>]
                      ELSE rest(s, s.value)

(***************************************************************************)
(* The state SpecArgs starts in: a launched mesh of H hosts with D devices *)
(* each, every worker holding executable 1, and the arrays                 *)
(*   1  a host array of 64-bit floats    2  a device array                 *)
(*   3  an abstract descriptor           4  a distributed array on the     *)
(*   mesh, whose buffers 1..H*D hold its shards                            *)
(*   5  a replicated array with array 4 as its replica on mesh 1           *)
(*   6  a replicated array with a replica on mesh 2 only.                  *)
(***************************************************************************)
MeshShapes == {<<1, 1>>, <<2, 1>>}

\* per-shard indices of n shards: every shard the whole array, or the first
\* shard its left half and the others its right half
IndexSamples(n) ==
    {[i \in 1..n |-> Whole], [i \in 1..n |-> IF i = 1 THEN Left ELSE Right]}

\* the refs of the buffers 1..H*D, in the order of _device_mesh_put
InitialRefs(mesh) ==
    [k \in 1..(mesh.num_hosts * mesh.num_devices_per_host) |->
        RemoteBufferRef(k, (k - 1) \div mesh.num_devices_per_host,
                        (k - 1) % mesh.num_devices_per_host, "float32")]

\* a host array, a device array, a descriptor, a distributed array of the
\* mesh, and two replicated arrays that hold it under mesh 1 and under mesh 2
InitialArrays(mesh, indices) ==
    LET pool == <<NdArray(Array("float64", <<1, 2>>, 0)),
                  DeviceArray(Array("float32", <<1, 2>>, 2)),
                  ShapedArray(<<1, 2>>, "float32"),
                  DistributedArray(1, [shape |-> <<1, 2>>, dtype |-> "float32"],
                                   InitialRefs(mesh), indices)>>
    IN  pool \o <<ReplicatedDistributedArray(pool, <<1>>, <<4>>).value,
                  ReplicatedDistributedArray(pool, <<2>>, <<4>>).value>>

\* worker h after the put_executable and put_buffer calls that came before
InitialWorker(mesh, indices, h) ==
    [put_executable(NewWorker, 1, "NormalMeshWorkerExecutable", <<>>).w
        EXCEPT !.buffers =
            [k \in {k \in DOMAIN InitialRefs(mesh) : InitialRefs(mesh)[k].host_id = h} |->
                [GetItem(Array("float32", <<1, 2>>, 4), indices[k])
                    EXCEPT !.device = InitialRefs(mesh)[k].device_id]]]

InitArgs ==
    /\ \E shape \in MeshShapes :
          LET mesh == LaunchedMesh(shape[1], shape[2])
          IN  /\ meshes = <<mesh>>
              /\ \E indices \in IndexSamples(shape[1] * shape[2]) :
                    /\ arrays = InitialArrays(mesh, indices)
                    /\ workers = [h \in 0..(shape[1] - 1) |->
                                     InitialWorker(mesh, indices, h)]
              /\ remote_buffer_counter = shape[1] * shape[2]
    /\ ray_initialized = TRUE
    /\ use_dummy_value_for_benchmarking \in BOOLEAN
    /\ requests = <<>>
    /\ ret = NoCall
    /\ signal = FALSE /\ hist = <<>>
    /\ IdleReshard
    /\ used_port_set = {NoPort, PortLow} /\ actors = <<>> /\ services = <<>>
    /\ driver = Idle

\* a call of the driver on mesh 1 ends in the view c
Finish(op, c) ==
    /\ workers' = c.workers
    /\ requests' = c.requests
    /\ arrays' = c.arrays
    /\ remote_buffer_counter' = c.counter
    /\ ret' = [op |-> op, uuid |-> 1, was |-> meshes[1].launched, res |-> c.res,
               value |-> IF c.res = "ok" THEN c.value ELSE <<>>]
    /\ UNCHANGED <<meshes, signal, hist, run, plan, used_port_set, actors, services,
                   driver, ray_initialized, use_dummy_value_for_benchmarking>>

\* the lists of buffer refs the driver holds: those of its distributed arrays
\* and those the last shard_args returned
HeldRefs ==
    {arrays[a].remote_buffers :
        a \in {a \in DOMAIN arrays : arrays[a].kind = "DistributedArray"}}
    \cup (IF ret.op = "shard_args"
          THEN {ret.value[i] : i \in DOMAIN ret.value} ELSE {})

\* lists of one argument, or of two that begin with the host array or the
\* distributed array; none of them a deleted device array
ArgLists ==
    {args \in UNION {[1..n -> DOMAIN arrays] : n \in 1..2} :
        /\ Len(args) = 2 => args[1] \in {1, 4}
        /\ \A i \in DOMAIN args :
              arrays[args[i]].kind = "DeviceArray" => ~arrays[args[i]].deleted}

\* the arguments of a shard_args call: the same indices are requested of every
\* argument, and all are donated or none
ArgSamples ==
    {[args |-> args, arg_indices |-> [i \in DOMAIN args |-> indices],
      donated_invars |-> [i \in DOMAIN args |-> donated]] :
        args \in ArgLists,
        indices \in IndexSamples(meshes[1].num_hosts * meshes[1].num_devices_per_host),
        donated \in BOOLEAN}

\* the driver shards arguments once; calls that create no buffer can follow
ShardArgs ==
    \E x \in ArgSamples :
        /\ is_distributed(meshes[1])
        /\ ray_initialized
        /\ remote_buffer_counter = Len(arrays[4].remote_buffers)
        /\ requests = <<>>
        /\ Finish("shard_args",
                  shard_args(Now, 1, x.arg_indices, x.donated_invars, x.args, <<>>))

DeleteRemoteBuffers ==
    \E buf_refs \in {<<>>} \cup HeldRefs :
        /\ requests = <<>>
        /\ Finish("delete_remote_buffers",
                  delete_remote_buffers(Now, meshes[1], buf_refs))

DeleteRemoteExecutable ==
    \E exec_uuid \in {1} :
        /\ requests = <<>>
        /\ Finish("delete_remote_executable",
                  delete_remote_executable(Now, meshes[1], exec_uuid))

\* the driver reads the host value of the distributed array (array._value);
\* `fetched` counts the buffers it awaited
ReadValue ==
    LET c == _value(Now, 4)
    IN  /\ meshes[1].launched
        /\ ray_initialized
        /\ requests = <<>>
        /\ workers' = c.workers
        /\ requests' = c.requests
        /\ arrays' = c.arrays
        /\ ret' = [op |-> "_value", uuid |-> 1, was |-> TRUE, res |-> c.res,
                   value |-> IF c.res = "ok" THEN c.value ELSE <<>>,
                   fetched |-> Cardinality({k \in DOMAIN c.trace :
                                               c.trace[k].ev = "get"})]
        /\ UNCHANGED <<remote_buffer_counter, meshes, signal, hist, run, plan,
                       used_port_set, actors, services, driver, ray_initialized,
                       use_dummy_value_for_benchmarking>>

\* the driver deletes the distributed array (array.delete())
DeleteArray ==
    /\ requests = <<>>
    /\ arrays' = [arrays EXCEPT ![4] = DistributedArray_delete(@)]
    /\ ret' = [op |-> "delete", uuid |-> 1, was |-> meshes[1].launched,
               res |-> "ok", value |-> <<>>]
    /\ UNCHANGED <<workers, requests, remote_buffer_counter, meshes, signal, hist,
                   run, plan, used_port_set, actors, services, driver,
                   ray_initialized, use_dummy_value_for_benchmarking>>

\* a worker serves the oldest request it was sent
WorkerServes ==
    \E i \in DOMAIN requests :
        /\ \A j \in 1..(i - 1) : requests[j].worker # requests[i].worker
        /\ workers' = [workers EXCEPT ![requests[i].worker] =
                          ServeRequest(@, requests[i]).w]
        /\ requests' = SubSeq(requests, 1, i - 1)
                       \o SubSeq(requests, i + 1, Len(requests))
        /\ UNCHANGED <<ret, arrays, remote_buffer_counter, meshes, signal, hist, run,
                       plan, used_port_set, actors, services, driver, ray_initialized,
                       use_dummy_value_for_benchmarking>>

\* shutdown(forced=True) of the mesh: the workers are killed with what they
\* hold and what they were sent, and the worker list is dropped
ShutdownNow ==
    /\ meshes[1].launched
    /\ ray_initialized
    /\ meshes' = [meshes EXCEPT ![1].workers = None, ![1].service_server = None,
                                ![1].launched = FALSE]
    /\ workers' = <<>>
    /\ requests' = <<>>
    /\ ret' = [op |-> "shutdown", uuid |-> 1, was |-> TRUE, res |-> "ok"]
    /\ UNCHANGED <<arrays, remote_buffer_counter, signal, hist, run, plan,
                   used_port_set, actors, services, driver, ray_initialized,
                   use_dummy_value_for_benchmarking>>

\* ray.shutdown(): the cluster runtime goes away and every worker with it;
\* the mesh keeps its list of worker handles
RayShutdown ==
    /\ ray_initialized
    /\ ray_initialized' = FALSE
    /\ workers' = <<>>
    /\ requests' = <<>>
    /\ UNCHANGED <<ret, meshes, arrays, remote_buffer_counter, signal, hist, run, plan,
                   used_port_set, actors, services, driver,
                   use_dummy_value_for_benchmarking>>

NextArgs ==
    \/ ShardArgs
    \/ ReadValue
    \/ DeleteArray
    \/ DeleteRemoteBuffers
    \/ DeleteRemoteExecutable
    \/ WorkerServes
    \/ ShutdownNow
    \/ RayShutdown

SpecArgs == InitArgs /\ [][NextArgs]_vars

(***************************************************************************)
(* SpecArrays: the array objects alone.  The driver holds two distributed  *)
(* arrays (array ids 1 and 2, on the meshes of the same ids), builds one   *)
(* replicated array from a list of meshes and a list of arrays, adds       *)
(* replicas to it, and reads one_replica_buffer_indices of array 1.  The   *)
(* replicated array, once built, is the last element of `arrays`.          *)
(***************************************************************************)
\* a slice with a step; slice(a, b, 1) selects what slice(a, b) selects
SliceStep(a, b, s) == [start |-> a, stop |-> b, step |-> s]
WholeBy1 == <<SliceStep(0, 1, 1), SliceStep(0, 2, 1)>>

\* the shard indices of array 1: lists of up to MaxIndices indices
MaxIndices == 3
IndexLists ==
    UNION {[1..n -> {Whole, WholeBy1, Left}] : n \in 0..MaxIndices}

ArrayIds == {1, 2}
MeshIds == {1, 2}

\* distributed array a, with one buffer per index
PoolArray(a, indices) ==
    DistributedArray(a, [shape |-> <<1, 2>>, dtype |-> "float32"],
                     [k \in 1..Len(indices) |->
                         RemoteBufferRef(10 * a + k, 0, k - 1, "float32")],
                     indices)

InitArrays ==
    /\ \E indices \in IndexLists :
          arrays = <<PoolArray(1, indices), PoolArray(2, <<Left, Right>>)>>
    /\ ret = NoCall
    /\ workers = <<>> /\ signal = FALSE /\ hist = <<>>
    /\ IdleReshard
    /\ IdleMesh
    /\ ray_initialized = TRUE /\ use_dummy_value_for_benchmarking = FALSE
    /\ requests = <<>> /\ remote_buffer_counter = 0

UnchangedByArrays ==
    UNCHANGED <<workers, signal, hist, run, plan, meshes, used_port_set, actors,
                services, driver, ray_initialized, use_dummy_value_for_benchmarking,
                requests, remote_buffer_counter>>

\* lists of at most two elements of S
ShortLists(S) == UNION {[1..n -> S] : n \in 0..2}

\* ReplicatedDistributedArray(device_meshes, arrays)
ConstructReplicated ==
    \E device_meshes \in ShortLists(MeshIds),
       distributed_arrays \in ShortLists(ArrayIds) :
        LET made == ReplicatedDistributedArray(arrays, device_meshes,
                                               distributed_arrays)
        IN  /\ DOMAIN arrays = ArrayIds
            /\ arrays' = IF made.res = "ok" THEN Append(arrays, made.value)
                         ELSE arrays
            /\ ret' = [op |-> "ReplicatedDistributedArray", uuid |-> 0,
                       was |-> FALSE, res |-> made.res]
            /\ UnchangedByArrays

\* replicated.add_replica(mesh, array)
AddReplica ==
    \E mesh \in MeshIds, array \in ArrayIds :
        LET added == add_replica(arrays[Len(arrays)], mesh, array)
        IN  /\ DOMAIN arrays # ArrayIds
            /\ arrays' = [arrays EXCEPT ![Len(arrays)] = added.value]
            /\ ret' = [op |-> "add_replica", uuid |-> 0, was |-> FALSE,
                       res |-> added.res, args |-> <<mesh, array>>]
            /\ UnchangedByArrays

\* array.one_replica_buffer_indices
ReadOneReplica ==
    \E a \in {1} :
        LET read == one_replica_buffer_indices(arrays[a])
        IN  /\ arrays' = [arrays EXCEPT ![a] = read]
            /\ ret' = [op |-> "one_replica_buffer_indices", uuid |-> 0,
                       was |-> FALSE, res |-> "ok", args |-> <<a>>,
                       value |-> read._one_replica_buffer_indices[1]]
            /\ UnchangedByArrays

NextArrays ==
    \/ ConstructReplicated
    \/ AddReplica
    \/ ReadOneReplica

SpecArrays == InitArrays /\ [][NextArrays]_vars

(***************************************************************************)
(* Slicing the virtual mesh (VirtualPhysicalMesh, lines 1051-1134); its    *)
(* constructor is with the constructor of the driver-side mesh above.      *)
(***************************************************************************)
\* slice_1d that looks the host descriptors up by position
slice_1d_by_position(self, dim, indices) ==
    IF dim = 0
    THEN LET host_ids == Select(self.host_ids, indices)
             host_info == Select(self.host_info, indices)
         IN  IF host_ids.res # "ok" THEN host_ids
             ELSE IF host_info.res # "ok" THEN host_info
             ELSE VirtualPhysicalMesh(host_ids.value, host_info.value,
                                      self.head_ip, self.num_devices_per_host,
                                      None)
    ELSE IF indices = <<>> THEN Raised("IndexError")
    ELSE VirtualPhysicalMesh(self.host_ids, self.host_info, self.head_ip,
                             Len(indices[1]), Some(indices))

\* slice_1d(dim, indices), lines 1051-1077
slice_1d(self, dim, indices) ==
    IF dim = 0
    THEN LET host_ids == Select(self.host_ids, indices)
             host_info == IF host_ids.res = "ok"
                          THEN Select(self.host_info, host_ids.value)
                          ELSE host_ids
         IN  IF host_info.res # "ok" THEN host_info
             ELSE VirtualPhysicalMesh(host_ids.value, host_info.value,
                                      self.head_ip, self.num_devices_per_host,
                                      None)
    ELSE IF indices = <<>> THEN Raised("IndexError")
    ELSE VirtualPhysicalMesh(self.host_ids, self.host_info, self.head_ip,
                             Len(indices[1]), Some(indices))

\* slice_2d(host_indices, device_indices), lines 1079-1086
slice_2d(self, host_indices, device_indices) ==
    LET host_ids == Select(self.host_ids, host_indices)
        host_info == Select(self.host_info, host_indices)
    IN  IF host_ids.res # "ok" THEN host_ids
        ELSE IF host_info.res # "ok" THEN host_info
        ELSE IF device_indices = <<>> THEN Raised("IndexError")
        ELSE VirtualPhysicalMesh(host_ids.value, host_info.value, self.head_ip,
                                 Len(device_indices[1]), Some(device_indices))

\* the submesh of grid cell (i, j), lines 1097-1105
ProfilingSubmesh(self, submesh_num_hosts, submesh_num_devices_per_host, i, j) ==
    LET host_indices == PyRange(i * submesh_num_hosts,
                                (i + 1) * submesh_num_hosts)
        device_indices ==
            [k \in DOMAIN host_indices |->
                PyRange(j * submesh_num_devices_per_host,
                        (j + 1) * submesh_num_devices_per_host)]
    IN  slice_2d(self, host_indices, device_indices)

\* slice_profiling_submeshes that walks the grid column by column
slice_profiling_submeshes_column_major(self, submesh_num_hosts, submesh_num_devices_per_host) ==
    IF submesh_num_hosts = 0 \/ submesh_num_devices_per_host = 0
    THEN Raised("ZeroDivisionError")
    ELSE LET num_host_submeshes == Len(self.host_ids) \div submesh_num_hosts
             num_device_submeshes ==
                 self.num_devices_per_host \div submesh_num_devices_per_host
             all_submeshes ==
                 [n \in 1..(num_host_submeshes * num_device_submeshes) |->
                     ProfilingSubmesh(self, submesh_num_hosts,
                                      submesh_num_devices_per_host,
                                      (n - 1) % num_host_submeshes,
                                      (n - 1) \div num_host_submeshes)]
         IN  IF \E n \in DOMAIN all_submeshes : all_submeshes[n].res # "ok"
             THEN Raised(all_submeshes[
                     CHOOSE n \in DOMAIN all_submeshes :
                         /\ all_submeshes[n].res # "ok"
                         /\ \A m \in 1..(n - 1) : all_submeshes[m].res = "ok"].res)
             ELSE Returned([n \in DOMAIN all_submeshes |-> all_submeshes[n].value])

\* slice_profiling_submeshes(submesh_num_hosts, submesh_num_devices_per_host),
\* lines 1088-1106: the loops over i and, inside, over j
slice_profiling_submeshes(self, submesh_num_hosts, submesh_num_devices_per_host) ==
    IF submesh_num_hosts = 0 \/ submesh_num_devices_per_host = 0
    THEN Raised("ZeroDivisionError")
    ELSE LET num_host_submeshes == Len(self.host_ids) \div submesh_num_hosts
             num_device_submeshes ==
                 self.num_devices_per_host \div submesh_num_devices_per_host
             all_submeshes ==
                 [n \in 1..(num_host_submeshes * num_device_submeshes) |->
                     ProfilingSubmesh(self, submesh_num_hosts,
                                      submesh_num_devices_per_host,
                                      (n - 1) \div num_device_submeshes,
                                      (n - 1) % num_device_submeshes)]
         IN  IF \E n \in DOMAIN all_submeshes : all_submeshes[n].res # "ok"
             THEN Raised(all_submeshes[
                     CHOOSE n \in DOMAIN all_submeshes :
                         /\ all_submeshes[n].res # "ok"
                         /\ \A m \in 1..(n - 1) : all_submeshes[m].res = "ok"].res)
             ELSE Returned([n \in DOMAIN all_submeshes |-> all_submeshes[n].value])

\* the shape, num_hosts and device_ids_flat properties, lines 1108-1134
VirtualShape(self) == <<Len(self.host_ids), self.num_devices_per_host>>
device_ids_flat(self) == Concat(self.devices)

(***************************************************************************)
(* Logical meshes (lines 603-687 and 1151-1169).                           *)
(*   logical mesh  [physical_mesh, id_mesh, mesh_alpha, mesh_beta], as     *)
(*                 LogicalDeviceMesh of alpa.shard_parallel.auto_sharding  *)
(*                 is given them                                           *)
(*   id_mesh       [shape, ids]: the ids in row-major order                *)
(* A coefficient or bandwidth is the positive fraction [num, den] in       *)
(* lowest terms.                                                           *)
(***************************************************************************)
RECURSIVE Gcd(_, _)
Gcd(a, b) == IF b = 0 THEN a ELSE Gcd(b, a % b)

Frac(n, d) == [num |-> n \div Gcd(n, d), den |-> d \div Gcd(n, d)]
FracDiv(a, b) == Frac(a.num * b.den, a.den * b.num)
FracLess(a, b) == a.num * b.den < b.num * a.den
\* min(a, b)
FracMin(a, b) == IF FracLess(b, a) THEN b ELSE a

LogicalDeviceMesh(physical_mesh, id_mesh, mesh_alpha, mesh_beta) ==
    [physical_mesh |-> physical_mesh, id_mesh |-> id_mesh,
     mesh_alpha |-> mesh_alpha, mesh_beta |-> mesh_beta]

\* np.arange(n).reshape(mesh_shape)
ArangeReshaped(n, mesh_shape) ==
    IF Prod(mesh_shape) # n THEN Raised("ValueError")
    ELSE Returned([shape |-> mesh_shape, ids |-> PyRange(0, n)])

\* given or (x,) * n: an absent or empty vector is replaced
OrDefault(given, x, n) ==
    IF given = None \/ given[1] = <<>> THEN [k \in 1..n |-> x] ELSE given[1]

\* a vector passed on as it was given: the vector, or None when none was
\* given (any topology other than None and "tree", lines 612-618)
AsGiven(given) == IF given = None THEN None ELSE given[1]

\* len(device_ids_flat) of a driver-side mesh, lines 575-599
num_devices(self) == self.num_hosts * self.num_devices_per_host

\* host_ids[i][j] of lines 622-625 for a mesh_shape of two axes, and of
\* three or more whose further axes have one entry each
HostAt(self, mesh_shape, i, j) ==
    (i * mesh_shape[2] + j) \div self.num_devices_per_host

\* the sorted host pair of lines 632-637: cell (i, j) and its ring successor
\* along the axis
RingPair(self, mesh_shape, axis, i, j) ==
    LET left == HostAt(self, mesh_shape, i, j)
        right == IF axis = 0
                 THEN HostAt(self, mesh_shape, (i + 1) % mesh_shape[1], j)
                 ELSE HostAt(self, mesh_shape, i, (j + 1) % mesh_shape[2])
    IN  IF left > right THEN <<right, left>> ELSE <<left, right>>

Cells(mesh_shape) == (0..(mesh_shape[1] - 1)) \X (0..(mesh_shape[2] - 1))

\* the link count tallied from the walked column (row) alone
host_link_ct_walked_only(self, mesh_shape, axis, pair) ==
    Cardinality({c \in Cells(mesh_shape) :
                    /\ IF axis = 0 THEN c[2] = 0 ELSE c[1] = 0
                    /\ pair[1] # pair[2]
                    /\ RingPair(self, mesh_shape, axis, c[1], c[2]) = pair})

\* host_link_ct[pair] after the loops of lines 630-637 (axis 0) and 656-663
\* (axis 1): one link for every cell of the grid whose ring successor along
\* the axis is on another host
host_link_ct(self, mesh_shape, axis, pair) ==
    Cardinality({c \in Cells(mesh_shape) :
                    /\ pair[1] # pair[2]
                    /\ RingPair(self, mesh_shape, axis, c[1], c[2]) = pair})

\* the loops of lines 642-651 (axis 0, column 0) and 667-675 (axis 1, row
\* 0), from position k on
RECURSIVE WalkBandwidth(_, _, _, _, _, _)
WalkBandwidth(self, mesh_shape, axis, inter_host_bandwidth, bandwidth, k) ==
    IF k >= mesh_shape[axis + 1] THEN bandwidth
    ELSE LET pair == IF axis = 0 THEN RingPair(self, mesh_shape, 0, k, 0)
                     ELSE RingPair(self, mesh_shape, 1, 0, k)
         IN  WalkBandwidth(self, mesh_shape, axis, inter_host_bandwidth,
                 IF pair[1] # pair[2]
                 THEN FracMin(bandwidth,
                              FracDiv(inter_host_bandwidth,
                                      Frac(host_link_ct(self, mesh_shape, axis, pair), 1)))
                 ELSE bandwidth,
                 k + 1)

\* mesh_beta[axis] of lines 652 and 676
TreeBeta(self, mesh_shape, axis, intra_host_bandwidth, inter_host_bandwidth) ==
    FracDiv(Frac(1, 1),
            WalkBandwidth(self, mesh_shape, axis, inter_host_bandwidth,
                          intra_host_bandwidth, 0))

\* PhysicalDeviceMesh.get_logical_mesh, lines 603-678
get_logical_mesh(self, mesh_shape, mesh_alpha, mesh_beta, mesh_topology, intra_host_bandwidth, inter_host_bandwidth) ==
    LET id_mesh == ArangeReshaped(num_devices(self), mesh_shape)
    IN  IF id_mesh.res # "ok" THEN id_mesh
        ELSE IF mesh_topology = None
        THEN Returned(LogicalDeviceMesh(self, id_mesh.value,
                          OrDefault(mesh_alpha, Frac(1, 1), Len(mesh_shape)),
                          OrDefault(mesh_beta, Frac(1, 1), Len(mesh_shape))))
        ELSE IF mesh_topology # Some("tree")
        THEN Returned(LogicalDeviceMesh(self, id_mesh.value,
                          AsGiven(mesh_alpha), AsGiven(mesh_beta)))
        ELSE IF mesh_alpha # None \/ mesh_beta # None
        THEN Raised("AssertionError")
        ELSE IF Len(mesh_shape) < 2 THEN Raised("IndexError")
        ELSE IF Prod(mesh_shape) # mesh_shape[1] * mesh_shape[2]
        THEN Raised("ValueError")
        ELSE IF /\ Len(mesh_shape) > 2
                /\ \E axis \in {0, 1}, c \in Cells(mesh_shape) :
                      LET pair == RingPair(self, mesh_shape, axis, c[1], c[2])
                      IN  pair[1] # pair[2]
        THEN Raised("TypeError")
        ELSE Returned(LogicalDeviceMesh(self, id_mesh.value,
                          <<Frac(1, 1), Frac(1, 1)>>,
                          <<TreeBeta(self, mesh_shape, 0, intra_host_bandwidth,
                                     inter_host_bandwidth),
                            TreeBeta(self, mesh_shape, 1, intra_host_bandwidth,
                                     inter_host_bandwidth)>>))

\* get_default_logical_mesh with the multi-host beta of the virtual mesh
get_default_logical_mesh_as_virtual(self) ==
    get_logical_mesh(self, <<self.num_hosts, self.num_devices_per_host>>,
                     Some(<<Frac(1, 1), Frac(1, 1)>>),
                     Some(IF self.num_hosts = 1 THEN <<Frac(1, 1), Frac(1, 1)>>
                          ELSE <<Frac(1, 1), Frac(1, 10)>>),
                     None, None, None)

\* PhysicalDeviceMesh.get_default_logical_mesh, lines 680-687
get_default_logical_mesh(self) ==
    get_logical_mesh(self, <<self.num_hosts, self.num_devices_per_host>>,
                     Some(<<Frac(1, 1), Frac(1, 1)>>),
                     Some(IF self.num_hosts = 1 THEN <<Frac(1, 1), Frac(1, 1)>>
                          ELSE <<Frac(1, 1), Frac(1, 100)>>),
                     None, None, None)

\* VirtualPhysicalMesh.get_logical_mesh, lines 1151-1156
virtual_get_logical_mesh(self, mesh_shape, mesh_alpha, mesh_beta) ==
    LET id_mesh == ArangeReshaped(Len(device_ids_flat(self)), mesh_shape)
    IN  IF id_mesh.res # "ok" THEN id_mesh
        ELSE Returned(LogicalDeviceMesh(self, id_mesh.value,
                          OrDefault(mesh_alpha, Frac(1, 1), Len(mesh_shape)),
                          OrDefault(mesh_beta, Frac(1, 1), Len(mesh_shape))))

\* VirtualPhysicalMesh.get_default_logical_mesh, lines 1158-1165
virtual_get_default_logical_mesh(self) ==
    virtual_get_logical_mesh(self,
        <<Len(self.host_ids), self.num_devices_per_host>>,
        Some(<<Frac(1, 1), Frac(1, 1)>>),
        Some(IF Len(self.host_ids) = 1 THEN <<Frac(1, 1), Frac(1, 1)>>
             ELSE <<Frac(1, 1), Frac(1, 10)>>))

\* VirtualPhysicalMesh.get_1d_logical_mesh, lines 1167-1169
get_1d_logical_mesh(self) ==
    virtual_get_logical_mesh(self, <<1, Len(device_ids_flat(self))>>, None, None)

(***************************************************************************)
(* SpecTopology: a virtual mesh taken from a cluster is sliced, and        *)
(* logical meshes are taken from it or from a driver-side mesh.  The mesh  *)
(* is meshes[1], at first a mesh that get_virtual_physical_mesh returned;  *)
(* a slice that succeeds takes its place.  `ret` holds the last call, its  *)
(* arguments and what it returned.                                         *)
(***************************************************************************)
\* DeviceCluster(), lines 1175-1193: the hosts of the ray cluster and the
\* number of GPUs of each of them; host x has gpus[x] GPUs (self.num_devices)
DeviceCluster(gpus) ==
    [head_ip |-> "10.0.0.1",
     host_info |-> SubSeq(ClusterHostInfo, 1, Len(gpus)),
     num_devices |-> gpus]

\* DeviceCluster.get_virtual_physical_mesh(host_ids, num_devices_per_host),
\* lines 1230-1248.  `x or default` takes the default when x is None, an
\* empty list or 0: every host of the cluster (np.arange) for host_ids, the
\* device count of the first selected host for num_devices_per_host.  Every
\* selected host must have at least num_devices_per_host devices.
get_virtual_physical_mesh(self, host_ids, num_devices_per_host) ==
    LET ids == IF host_ids = None \/ host_ids[1] = <<>>
               THEN PyRange(0, Len(self.host_info)) ELSE host_ids[1]
        host_info == Select(self.host_info, ids)
        given == num_devices_per_host # None /\ num_devices_per_host[1] # 0
        counts == Select(self["num_devices"], ids)
    IN  IF host_info.res # "ok" THEN host_info
        ELSE IF ~given /\ ids = <<>> THEN Raised("IndexError")
        ELSE LET n == IF given THEN num_devices_per_host[1]
                      ELSE counts.value[1]
             IN  IF \E k \in DOMAIN ids : ~(counts.value[k] >= n)
                 THEN Raised("AssertionError")
                 ELSE VirtualPhysicalMesh(ids, host_info.value, self.head_ip,
                                          n, None)

\* the clusters, and the host-id lists and device counts the virtual mesh is
\* asked for
Clusters ==
    {DeviceCluster(<<1, 1, 1>>), DeviceCluster(<<2, 2, 2>>),
     DeviceCluster(<<4, 4, 4>>), DeviceCluster(<<4, 2, 4>>)}
RootHostIds ==
    {None, Some(<<>>), Some(<<0>>), Some(<<0, 1>>), Some(<<1, 0>>),
     Some(<<1, 2>>), Some(<<0, 1, 2>>)}
RootDeviceCounts == {None, Some(0), Some(1), Some(2), Some(4)}

\* the driver-side meshes: a local mesh and launched cluster-allocated ones
LocalMesh ==
    [use_ray |-> FALSE, num_hosts |-> 1, num_devices_per_host |-> 2,
     workers |-> None, launched |-> FALSE, service_server |-> None,
     server_address |-> None]
DriverMeshes ==
    {LocalMesh} \cup
    {LaunchedMesh(s[1], s[2]) : s \in {<<1, 2>>, <<2, 1>>, <<2, 2>>, <<2, 3>>, <<3, 2>>}}

IsVirtual(mesh) == "host_info" \in DOMAIN mesh

\* the arguments the calls are made with
HostIndexLists ==
    {<<>>, <<0>>, <<1>>, <<2>>, <<0, 0>>, <<0, 1>>, <<1, 0>>, <<0, 2>>, <<-1>>,
     <<2, -3>>}
DeviceIndexLists ==
    {<<>>, <<<<0>>>>, <<<<0, 1>>>>, <<<<0>>, <<0>>>>, <<<<0, 1>>, <<0, 1>>>>,
     <<<<1>>, <<1>>>>, <<<<0, 1>>, <<0>>>>, <<<<0>>, <<0>>, <<0>>>>}
SubmeshSizes == {0, 1, 2, 3}
LogicalShapes(n) ==
    {<<n>>, <<2, n>>, <<1, n, 1>>} \cup
    {<<a, n \div a>> : a \in {a \in 1..n : n % a = 0}}
Coefficients ==
    {None, Some(<<>>), Some(<<Frac(1, 1)>>), Some(<<Frac(2, 1), Frac(1, 2)>>)}
Topologies == {None, Some("tree"), Some("ring")}
Bandwidths == {<<Frac(8, 1), Frac(1, 1)>>, <<Frac(8, 1), Frac(16, 1)>>,
               <<Frac(2, 1), Frac(16, 1)>>}

InitTopology ==
    /\ \/ \E cluster \in Clusters, host_ids \in RootHostIds,
             n \in RootDeviceCounts :
            LET made == get_virtual_physical_mesh(cluster, host_ids, n)
            IN  /\ made.res = "ok"
                /\ meshes = <<made.value>>
                /\ used_port_set = {NoPort}
       \/ \E mesh \in DriverMeshes :
            /\ meshes = <<mesh>>
            /\ used_port_set = IF mesh.use_ray THEN {NoPort, PortLow}
                               ELSE {NoPort}
    /\ actors = <<>> /\ services = <<>> /\ driver = Idle
    /\ ret = NoCall
    /\ workers = <<>> /\ hist = <<>> /\ signal = FALSE
    /\ IdleReshard
    /\ IdleArgs

UnchangedByTopology ==
    UNCHANGED <<workers, signal, hist, run, plan, used_port_set, actors,
                services, driver, clientVars>>

\* the call op(args) returned r; a mesh it returned takes the place of the
\* mesh it was called on
Called(op, args, r, replaces) ==
    /\ ret' = [op |-> op, uuid |-> 1, was |-> FALSE, res |-> r.res,
               args |-> args, value |-> r.value]
    /\ meshes' = IF replaces /\ r.res = "ok" THEN <<r.value>> ELSE meshes
    /\ UnchangedByTopology

Slice1dHosts ==
    \E indices \in HostIndexLists :
        /\ IsVirtual(meshes[1])
        /\ Called("slice_1d", <<0, indices>>, slice_1d(meshes[1], 0, indices), TRUE)

Slice1dDevices ==
    \E indices \in DeviceIndexLists :
        /\ IsVirtual(meshes[1])
        /\ Called("slice_1d", <<1, indices>>, slice_1d(meshes[1], 1, indices), TRUE)

Slice2d ==
    \E host_indices \in HostIndexLists, device_indices \in DeviceIndexLists :
        /\ IsVirtual(meshes[1])
        /\ Called("slice_2d", <<host_indices, device_indices>>,
                  slice_2d(meshes[1], host_indices, device_indices), TRUE)

SliceProfilingSubmeshes ==
    \E h \in SubmeshSizes, d \in SubmeshSizes :
        /\ IsVirtual(meshes[1])
        /\ Called("slice_profiling_submeshes", <<h, d>>,
                  slice_profiling_submeshes(meshes[1], h, d), FALSE)

GetLogicalMesh ==
    /\ ~IsVirtual(meshes[1])
    /\ \E mesh_shape \in LogicalShapes(num_devices(meshes[1])),
          mesh_alpha \in Coefficients, mesh_beta \in Coefficients,
          mesh_topology \in Topologies, bandwidth \in Bandwidths :
            Called("get_logical_mesh",
                   <<mesh_shape, mesh_alpha, mesh_beta, mesh_topology,
                     bandwidth[1], bandwidth[2]>>,
                   get_logical_mesh(meshes[1], mesh_shape, mesh_alpha, mesh_beta,
                                    mesh_topology, bandwidth[1], bandwidth[2]),
                   FALSE)

VirtualGetLogicalMesh ==
    /\ IsVirtual(meshes[1])
    /\ \E mesh_shape \in LogicalShapes(Len(device_ids_flat(meshes[1]))),
          mesh_alpha \in Coefficients, mesh_beta \in Coefficients :
            Called("get_logical_mesh", <<mesh_shape, mesh_alpha, mesh_beta>>,
                   virtual_get_logical_mesh(meshes[1], mesh_shape, mesh_alpha,
                                            mesh_beta),
                   FALSE)

GetDefaultLogicalMesh ==
    /\ driver = Idle
    /\ Called("get_default_logical_mesh", <<>>,
              IF IsVirtual(meshes[1])
              THEN virtual_get_default_logical_mesh(meshes[1])
              ELSE get_default_logical_mesh(meshes[1]),
              FALSE)

Get1dLogicalMesh ==
    /\ IsVirtual(meshes[1])
    /\ Called("get_1d_logical_mesh", <<>>, get_1d_logical_mesh(meshes[1]), FALSE)

NextTopology ==
    \/ Slice1dHosts
    \/ Slice1dDevices
    \/ Slice2d
    \/ SliceProfilingSubmeshes
    \/ GetLogicalMesh
    \/ VirtualGetLogicalMesh
    \/ GetDefaultLogicalMesh
    \/ Get1dLogicalMesh

SpecTopology == InitTopology /\ [][NextTopology]_vars

(***************************************************************************)
(* SpecMemory and SpecTimers: the memory statistics and the named timers   *)
(* of a mesh.                                                              *)
(* A device is [allocated, peak, available, queued]: the units in use,     *)
(* their peak, the units free, and the units of an allocation that was     *)
(* dispatched to the device and that it has not carried out yet.           *)
(* synchronize_all_activity waits until the device has carried out what    *)
(* was dispatched to it.  On a distributed mesh workers[h].local_devices   *)
(* are the devices of host h; on a local mesh meshes[1].devices are the    *)
(* devices of the driver.                                                  *)
(* alpa.timer.timers is a registry, one per process: timers(name) is the   *)
(* timer of that name, created with nothing elapsed the first time the     *)
(* name is asked for.  A registry is a map from names to the time elapsed. *)
(* workers[h].timers is the registry of worker h, meshes[1].timers the     *)
(* registry of the driver process.                                         *)
(* A call of the mesh is a list of statements: an operation of the driver  *)
(* process on its devices or its timers, or a ray.get of requests sent to  *)
(* workers.  The driver runs the statements in order and waits at a        *)
(* ray.get until every request of it has been served; the workers serve    *)
(* their requests on their own, in any order, and the devices and the      *)
(* timed sections go on meanwhile.  A call of a local mesh waits nowhere   *)
(* and is one step.  `requests` are the requests sent and not served yet,  *)
(* `driver` is the position of the call: the ray.get in progress, what the *)
(* workers answered to it, and the statements left to run.  `ret` is the   *)
(* call, with res = "running" until it returns.  Its trace lists in order, *)
(* for a memory call, which worker (distributed) or device (local) was     *)
(* synchronized ("sync"), read ("read") or cleared ("clear"), and for a    *)
(* timer call the worker requests served ("get"); its figures are the      *)
(* values the call returns or aggregates.                                  *)
(***************************************************************************)
FreshDevice == [allocated |-> 0, peak |-> 0, available |-> 1, queued |-> 0]

\* the device once it has carried out what was dispatched to it
synchronize_all_activity(d) ==
    [allocated |-> d.allocated + d.queued,
     peak |-> IF d.allocated + d.queued > d.peak THEN d.allocated + d.queued
              ELSE d.peak,
     available |-> d.available - d.queued, queued |-> 0]

clear_memory_stats(d) == [d EXCEPT !.peak = d.allocated]

\* memory_allocated(), max_memory_allocated() and available_memory() of a device
Figure(op, d) ==
    CASE op = "get_memory_allocated" -> d.allocated
      [] op = "get_max_memory_allocated" -> d.peak
      [] op = "get_available_memory" -> d.available

\* max(...) of the first two figures, min(...) of the third
Aggregate(op, figures) ==
    IF op = "get_available_memory" THEN SetMin(Range(figures))
    ELSE SetMax(Range(figures))

\* MeshHostWorker.sync, lines 414-416
worker_sync(w) ==
    [w EXCEPT !.local_devices =
        [k \in DOMAIN @ |-> synchronize_all_activity(@[k])]]

\* MeshHostWorker.get_memory_allocated, get_max_memory_allocated,
\* get_available_memory and reset_memory_stats, lines 131-146: each one
\* synchronizes the local devices first; op = "sync" is the sync method alone
worker_memory_call(w, op) ==
    LET synced == worker_sync(w)
    IN  IF op = "sync" THEN [w |-> synced, out |-> None]
        ELSE IF op = "reset_memory_stats"
        THEN [w |-> [synced EXCEPT !.local_devices =
                        [k \in DOMAIN @ |-> clear_memory_stats(@[k])]],
              out |-> None]
        ELSE [w |-> synced,
              out |-> Some(Aggregate(op, [k \in DOMAIN synced.local_devices |->
                                             Figure(op, synced.local_devices[k])]))]

\* what unit u (a worker, or a local device) does when it runs op
MemoryEvents(u, op) ==
    CASE op = "sync" -> <<Event("sync", u)>>
      [] op = "reset_memory_stats" -> <<Event("sync", u), Event("clear", u)>>
      [] OTHER -> <<Event("sync", u), Event("read", u)>>

\* alpa.timer: timers(name), which creates the timer on first use
timers(registry, name) ==
    IF name \in DOMAIN registry THEN registry ELSE DictSet(registry, name, 0)

\* alpa.timer: timers(name).reset()
timer_reset(registry, name) == DictSet(registry, name, 0)

\* MeshHostWorker.get_timer, lines 406-407
get_timer(w, name) ==
    [w |-> [w EXCEPT !.timers = timers(@, name)],
     out |-> Some(timers(w.timers, name)[name])]

\* MeshHostWorker.reset_timer, lines 409-411, which returns True
reset_timer(w, name) ==
    [w |-> [w EXCEPT !.timers = timer_reset(@, name)], out |-> Some(TRUE)]

\* worker.op.remote() and worker.op.remote(timer_name)
MemoryRequest(worker, op) == [worker |-> worker, op |-> op]
TimerRequestTo(worker, op, timer_name) ==
    [worker |-> worker, op |-> op, name |-> timer_name]

\* the worker runs the method a request names
Answer(w, rq) ==
    CASE rq.op = "get_timer" -> get_timer(w, rq.name)
      [] rq.op = "reset_timer" -> reset_timer(w, rq.name)
      [] OTHER -> worker_memory_call(w, rq.op)

\* the events of a served request
AnswerEvents(rq) ==
    IF rq.op \in {"get_timer", "reset_timer"} THEN <<Event("get", rq)>>
    ELSE MemoryEvents(rq.worker, rq.op)

\* the kinds of statement: ray.get(rqs), whose results are kept as the
\* figures of the call or dropped; op on every local device in turn; op on
\* the timer of the driver process
Await(rqs, keep) == [await |-> rqs, keep |-> keep]
OnDevices(op) == [local |-> op]
OnTimers(op, timer_name) == [local |-> op, name |-> timer_name]

\* [w.op.remote() for w in self.workers]
ToEveryWorker(mesh, op) ==
    [k \in DOMAIN mesh.workers[1] |-> MemoryRequest(mesh.workers[1][k], op)]

\* PhysicalDeviceMesh.sync_workers, lines 860-866
SyncWorkersNow(mesh) ==
    IF is_distributed(mesh) THEN Await(ToEveryWorker(mesh, "sync"), FALSE)
    ELSE OnDevices("sync")

\* PhysicalDeviceMesh.get_memory_allocated, lines 824-831
get_memory_allocated(mesh) ==
    <<SyncWorkersNow(mesh),
      IF is_distributed(mesh)
      THEN Await(ToEveryWorker(mesh, "get_memory_allocated"), TRUE)
      ELSE OnDevices("get_memory_allocated")>>

\* PhysicalDeviceMesh.get_max_memory_allocated, lines 833-841
get_max_memory_allocated(mesh) ==
    <<SyncWorkersNow(mesh),
      IF is_distributed(mesh)
      THEN Await(ToEveryWorker(mesh, "get_max_memory_allocated"), TRUE)
      ELSE OnDevices("get_max_memory_allocated")>>

\* PhysicalDeviceMesh.get_available_memory, lines 843-849
get_available_memory(mesh) ==
    <<IF is_distributed(mesh)
      THEN Await(ToEveryWorker(mesh, "get_available_memory"), TRUE)
      ELSE OnDevices("get_available_memory")>>

\* PhysicalDeviceMesh.reset_memory_stats, lines 851-857: one ray.get per
\* worker, the next request sent when the one before has been served
reset_memory_stats(mesh) ==
    IF is_distributed(mesh)
    THEN [k \in DOMAIN mesh.workers[1] |->
             Await(<<MemoryRequest(mesh.workers[1][k], "reset_memory_stats")>>,
                   FALSE)]
    ELSE <<OnDevices("reset_memory_stats")>>

\* PhysicalDeviceMesh.get_remote_timer, lines 811-815
get_remote_timer(mesh, timer_name) ==
    IF is_distributed(mesh)
    THEN <<Await(<<TimerRequestTo(mesh.workers[1][1], "get_timer", timer_name)>>,
                 TRUE)>>
    ELSE <<OnTimers("get_timer", timer_name)>>

\* reset_remote_timer that asks worker 0 only
reset_remote_timer_worker_0(mesh, timer_name) ==
    IF is_distributed(mesh)
    THEN <<Await(<<TimerRequestTo(mesh.workers[1][1], "reset_timer", timer_name)>>,
                 FALSE)>>
    ELSE <<OnTimers("reset_timer", timer_name)>>

\* PhysicalDeviceMesh.reset_remote_timer, lines 817-822: one ray.get per
\* worker, the next request sent when the one before has been served
reset_remote_timer(mesh, timer_name) ==
    IF is_distributed(mesh)
    THEN [k \in DOMAIN mesh.workers[1] |->
             Await(<<TimerRequestTo(mesh.workers[1][k], "reset_timer",
                                    timer_name)>>, FALSE)]
    ELSE <<OnTimers("reset_timer", timer_name)>>

\* op on the local devices one after the other; c is the mesh, the events
\* and the figures of the call so far
ReadDevices(c, op) ==
    [c EXCEPT !.mesh.devices =
                 CASE op = "sync" ->
                          [k \in DOMAIN @ |-> synchronize_all_activity(@[k])]
                   [] op = "reset_memory_stats" ->
                          [k \in DOMAIN @ |-> clear_memory_stats(@[k])]
                   [] OTHER -> @,
              !.trace = @ \o [k \in DOMAIN c.mesh.devices |->
                                 Event(CASE op = "sync" -> "sync"
                                         [] op = "reset_memory_stats" -> "clear"
                                         [] OTHER -> "read", k - 1)],
              !.figures = IF op \in {"sync", "reset_memory_stats"} THEN @
                          ELSE [k \in DOMAIN c.mesh.devices |->
                                   Figure(op, c.mesh.devices[k])]]

\* timers(timer_name) and timers(timer_name).reset() in the driver process
ReadTimers(c, op, timer_name) ==
    IF op = "get_timer"
    THEN [c EXCEPT !.mesh.timers = timers(@, timer_name),
                   !.figures = <<timers(c.mesh.timers, timer_name)[timer_name]>>]
    ELSE [c EXCEPT !.mesh.timers = timer_reset(@, timer_name)]

\* the driver runs the statements from the first on, up to the first ray.get
\* or to the end of the call; todo are the statements from that ray.get on
RECURSIVE RunOn(_, _)
RunOn(c, stmts) ==
    IF stmts = <<>> \/ "await" \in DOMAIN Head(stmts)
    THEN [mesh |-> c.mesh, trace |-> c.trace, figures |-> c.figures,
          todo |-> stmts]
    ELSE RunOn(IF "name" \in DOMAIN Head(stmts)
               THEN ReadTimers(c, Head(stmts).local, Head(stmts).name)
               ELSE ReadDevices(c, Head(stmts).local),
               Tail(stmts))

\* what a call returns: max(...), min(...), the value ray.get or timers(...)
\* gave, or nothing
ReturnValue(op, figures) ==
    CASE op \in {"reset_memory_stats", "reset_remote_timer"} -> None
      [] op = "get_remote_timer" -> figures[1]
      [] OTHER -> Aggregate(op, figures)

UnchangedByCall ==
    UNCHANGED <<signal, hist, run, plan, used_port_set, actors, services,
                ray_initialized, use_dummy_value_for_benchmarking, arrays,
                remote_buffer_counter>>

\* the driver runs the statements stmts of the call `call`: it stops at the
\* first ray.get, whose requests it sends, or the call returns
DriverRuns(call, stmts) ==
    LET c == RunOn([mesh |-> meshes[1], trace |-> call.trace,
                    figures |-> call.figures], stmts)
    IN  /\ meshes' = [meshes EXCEPT ![1] = c.mesh]
        /\ IF c.todo = <<>>
           THEN /\ ret' = [call EXCEPT
                              !.res = "ok", !.trace = c.trace,
                              !.figures = c.figures,
                              !.value = ReturnValue(call.op, c.figures)]
                /\ driver' = Idle
                /\ requests' = <<>>
           ELSE /\ ret' = [call EXCEPT !.trace = c.trace, !.figures = c.figures]
                /\ driver' = [pc |-> "ray.get", awaited |-> Head(c.todo),
                              got |-> EmptyMap, todo |-> Tail(c.todo)]
                /\ requests' = Head(c.todo).await
        /\ UNCHANGED workers
        /\ UnchangedByCall

\* a worker serves the request it was sent (the oldest one, were there
\* several); the driver is waiting in ray.get
WorkerAnswers ==
    \E i \in DOMAIN requests :
        LET rq == requests[i]
            r == Answer(workers[rq.worker], rq)
        IN  /\ \A j \in 1..(i - 1) : requests[j].worker # rq.worker
            /\ workers' = [workers EXCEPT ![rq.worker] = r.w]
            /\ requests' = SubSeq(requests, 1, i - 1)
                           \o SubSeq(requests, i + 1, Len(requests))
            /\ driver' = [driver EXCEPT !.got = DictSet(@, rq.worker, r.out)]
            /\ ret' = [ret EXCEPT !.trace = @ \o AnswerEvents(rq)]
            /\ UNCHANGED meshes
            /\ UnchangedByCall

\* every request of the ray.get has been served: ray.get returns the
\* answers in the order of its requests, and the driver runs on
RayGetReturns ==
    /\ driver.pc = "ray.get"
    /\ requests = <<>>
    /\ DriverRuns(IF driver.awaited.keep
                  THEN [ret EXCEPT !.figures =
                           [k \in DOMAIN driver.awaited.await |->
                               driver.got[driver.awaited.await[k].worker][1]]]
                  ELSE ret,
                  driver.todo)

\* the mesh with its local devices
WithDevices(mesh, devices) ==
    [f \in DOMAIN mesh \cup {"devices"} |->
        IF f = "devices" THEN devices ELSE mesh[f]]

InitMemory ==
    /\ \/ /\ meshes = <<WithDevices(LocalMesh, <<FreshDevice, FreshDevice>>)>>
          /\ workers = <<>>
          /\ used_port_set = {NoPort}
       \/ /\ meshes = <<WithDevices(LaunchedMesh(2, 2), None)>>
          /\ workers = [h \in 0..1 |->
                           [local_devices |-> <<FreshDevice, FreshDevice>>]]
          /\ used_port_set = {NoPort, PortLow}
    /\ actors = <<>> /\ services = <<>> /\ driver = Idle
    /\ ret = NoCall
    /\ hist = <<>> /\ signal = FALSE
    /\ IdleReshard
    /\ IdleArgs

\* device k of host h (of the driver, on a local mesh) becomes to
DeviceBecomes(h, k, to) ==
    /\ IF is_distributed(meshes[1])
       THEN /\ workers' = [workers EXCEPT ![h].local_devices[k] = to]
            /\ UNCHANGED meshes
       ELSE /\ meshes' = [meshes EXCEPT ![1].devices[k] = to]
            /\ UNCHANGED workers
    /\ UNCHANGED <<ret, driver, requests>>
    /\ UnchangedByCall

DeviceOf(h, k) ==
    IF is_distributed(meshes[1]) THEN workers[h].local_devices[k]
    ELSE meshes[1].devices[k]

Hosts == IF is_distributed(meshes[1]) THEN DOMAIN workers ELSE {0}

\* an allocation is dispatched to a device, which carries it out later
Dispatch ==
    \E h \in Hosts, k \in 1..2 :
        /\ DeviceOf(h, k).queued = 0 /\ DeviceOf(h, k).available > 0
        /\ DeviceBecomes(h, k, [DeviceOf(h, k) EXCEPT !.queued = 1])

\* a device carries out what was dispatched to it
CarryOut ==
    \E h \in Hosts, k \in 1..2 :
        /\ DeviceOf(h, k).queued > 0
        /\ DeviceBecomes(h, k, synchronize_all_activity(DeviceOf(h, k)))

\* a buffer of a device is freed
Release ==
    \E h \in Hosts, k \in 1..2 :
        /\ DeviceOf(h, k).allocated > 0
        /\ DeviceBecomes(h, k, [DeviceOf(h, k) EXCEPT !.allocated = @ - 1,
                                                      !.available = @ + 1])

\* the driver begins the call op of the mesh
MemoryCalled(op, stmts) ==
    DriverRuns([op |-> op, uuid |-> 1, was |-> meshes[1].launched,
                res |-> "running", value |-> None, figures |-> <<>>,
                trace |-> <<>>], stmts)

GetMemoryAllocated ==
    /\ driver = Idle
    /\ MemoryCalled("get_memory_allocated", get_memory_allocated(meshes[1]))

GetMaxMemoryAllocated ==
    /\ driver = Idle
    /\ MemoryCalled("get_max_memory_allocated", get_max_memory_allocated(meshes[1]))

GetAvailableMemory ==
    /\ driver = Idle
    /\ MemoryCalled("get_available_memory", get_available_memory(meshes[1]))

ResetMemoryStats ==
    /\ driver = Idle
    /\ MemoryCalled("reset_memory_stats", reset_memory_stats(meshes[1]))

NextMemory ==
    \/ Dispatch
    \/ CarryOut
    \/ Release
    \/ GetMemoryAllocated
    \/ GetMaxMemoryAllocated
    \/ GetAvailableMemory
    \/ ResetMemoryStats
    \/ WorkerAnswers
    \/ RayGetReturns

SpecMemory == InitMemory /\ [][NextMemory]_vars

(***************************************************************************)
(* SpecTimers: the named timers of a mesh (lines 406-410 and 811-822),     *)
(* read and reset by the driver while timed sections of the workers and of *)
(* the driver process end.                                                 *)
(***************************************************************************)
TimerNames == {"compute", "sync"}

\* the mesh with the timer registry of the driver process
WithTimers(mesh, registry) ==
    [f \in DOMAIN mesh \cup {"timers"} |->
        IF f = "timers" THEN registry ELSE mesh[f]]

TimedMeshes == {LocalMesh, LaunchedMesh(1, 2), LaunchedMesh(2, 2)}

InitTimers ==
    /\ \E mesh \in TimedMeshes :
          /\ meshes = <<WithTimers(mesh, EmptyMap)>>
          /\ workers = IF is_distributed(mesh)
                       THEN [h \in 0..(mesh.num_hosts - 1) |-> [timers |-> EmptyMap]]
                       ELSE <<>>
          /\ used_port_set = IF mesh.use_ray THEN {NoPort, PortLow} ELSE {NoPort}
    /\ actors = <<>> /\ services = <<>> /\ driver = Idle
    /\ ret = NoCall
    /\ hist = <<>> /\ signal = FALSE
    /\ IdleReshard
    /\ IdleArgs

\* a timed section of a process ends: its timer, created if need be, gains time
TimedSection ==
    \E timer_name \in TimerNames :
        /\ \/ \E h \in DOMAIN workers :
                 /\ timers(workers[h].timers, timer_name)[timer_name] = 0
                 /\ workers' = [workers EXCEPT ![h].timers =
                                   DictSet(@, timer_name, 1)]
                 /\ UNCHANGED meshes
           \/ /\ timers(meshes[1].timers, timer_name)[timer_name] = 0
              /\ meshes' = [meshes EXCEPT ![1].timers = DictSet(@, timer_name, 1)]
              /\ UNCHANGED workers
        /\ UNCHANGED <<ret, driver, requests>>
        /\ UnchangedByCall

\* the driver begins the call op(timer_name) of the mesh
TimerCalled(op, timer_name, stmts) ==
    DriverRuns([op |-> op, uuid |-> 1, was |-> meshes[1].launched,
                res |-> "running", name |-> timer_name, value |-> None,
                figures |-> <<>>, trace |-> <<>>], stmts)

GetRemoteTimerOf(timer_name) ==
    /\ driver = Idle
    /\ TimerCalled("get_remote_timer", timer_name,
                   get_remote_timer(meshes[1], timer_name))

ResetRemoteTimerOf(timer_name) ==
    /\ driver = Idle
    /\ TimerCalled("reset_remote_timer", timer_name,
                   reset_remote_timer(meshes[1], timer_name))

GetRemoteTimer == \E timer_name \in TimerNames : GetRemoteTimerOf(timer_name)

ResetRemoteTimer == \E timer_name \in TimerNames : ResetRemoteTimerOf(timer_name)

NextTimers ==
    \/ TimedSection
    \/ GetRemoteTimer
    \/ ResetRemoteTimer
    \/ WorkerAnswers
    \/ RayGetReturns

SpecTimers == InitTimers /\ [][NextTimers]_vars

(***************************************************************************)
(* SpecPut: a host array is sharded onto a launched mesh (_shard_array and *)
(* _device_mesh_put, lines 1259-1282), and the workers serve the put       *)
(* requests.  arrays[1] is the host array; remote_buffer_counter is the    *)
(* uuid the last RemoteBufferRef of the process was given.                 *)
(***************************************************************************)
PutMeshShapes == {<<1, 2>>, <<2, 1>>, <<2, 2>>}

\* per-shard indices of n shards: the left and the right half by turns
Alternating(n) == [i \in 1..n |-> IF i % 2 = 1 THEN Left ELSE Right]

PutIndexSamples(n) == IndexSamples(n) \cup {Alternating(n)}

InitPut ==
    /\ \E shape \in PutMeshShapes :
          /\ meshes = <<LaunchedMesh(shape[1], shape[2])>>
          /\ workers = [h \in 0..(shape[1] - 1) |-> NewWorker]
    /\ \E x \in {Array("float32", <<1, 2>>, 0), Array("int32", <<1, 2>>, 4)} :
          arrays = <<NdArray(x)>>
    /\ remote_buffer_counter \in {0, 5}
    /\ ray_initialized = TRUE
    /\ use_dummy_value_for_benchmarking \in BOOLEAN
    /\ requests = <<>>
    /\ ret = NoCall
    /\ signal = FALSE /\ hist = <<>>
    /\ IdleReshard
    /\ used_port_set = {NoPort, PortLow} /\ actors = <<>> /\ services = <<>>
    /\ driver = Idle

\* _shard_array(arrays[1], meshes[1], indices), once
ShardArrayWith(indices) ==
    /\ ret = NoCall
    /\ Finish("_shard_array", _shard_array(Now, arrays[1], meshes[1], indices))

ShardArray ==
    \E indices \in PutIndexSamples(meshes[1].num_hosts * meshes[1].num_devices_per_host) :
        ShardArrayWith(indices)

\* a worker serves the oldest request that was sent to it
ServePut ==
    /\ ret.op = "_shard_array"
    /\ WorkerServes

NextPut ==
    \/ ShardArray
    \/ ServePut

SpecPut == InitPut /\ [][NextPut]_vars

(***************************************************************************)
(* SpecProfile: profile_resharding_recv_task on one worker (lines          *)
(* 388-404).  alpa.util.benchmark_func(run_fn, sync_fn, warmup, repeat,    *)
(* number) calls run_fn warmup times and then, repeat times over, sync_fn  *)
(* (if given), run_fn number times and sync_fn again, timing each round.   *)
(*   plan  the arguments: [uuid, buf_uuids, warmup, repeat, number, sync]  *)
(*   run   where the profiling is: [stage, set_empty_buffer (the variable  *)
(*         run_fn closes over), warmups, rep, num (calls done in the       *)
(*         warm-up, rounds done, calls done in this round), calls, timed   *)
(*         (run_fn calls so far, and the timed ones among them)]           *)
(*   ret   the last run_fn call, with the set_empty_buffer it passed       *)
(* The peer of the receive task is outside the model: every tile it sends  *)
(* holds PeerValue.                                                        *)
(***************************************************************************)
\* run_fn that leaves set_empty_buffer as it is
run_fn_allocating_again(w, sig, uuid, buf_uuids, set_empty_buffer) ==
    [r |-> run_resharding_recv_task(w, sig, uuid, buf_uuids, set_empty_buffer,
                                    PeerValue),
     set_empty_buffer |-> set_empty_buffer]

\* run_fn, lines 397-400: the task runs with the flag, which is cleared once
\* the run has returned; a run that raises leaves the flag as it was
run_fn(w, sig, uuid, buf_uuids, set_empty_buffer) ==
    LET r == run_resharding_recv_task(w, sig, uuid, buf_uuids, set_empty_buffer,
                                      PeerValue)
    IN  [r |-> r,
         set_empty_buffer |-> IF r.res = "ok" THEN FALSE ELSE set_empty_buffer]

\* benchmark_func: a round begins, or the rounds are over
EnterRound(r) ==
    IF r.rep >= plan.repeat THEN [r EXCEPT !.stage = "returned"]
    ELSE [r EXCEPT !.stage = IF plan.sync THEN "sync_before" ELSE "timed",
                   !.num = 0]

\* benchmark_func: what follows a warm-up call, and what follows a timed one
AfterWarmup(r) == IF r.warmups < plan.warmup THEN r ELSE EnterRound(r)
AfterTimed(r) ==
    IF r.num < plan.number THEN r
    ELSE IF plan.sync THEN [r EXCEPT !.stage = "sync_after"]
    ELSE EnterRound([r EXCEPT !.rep = @ + 1])

ProfilePlans ==
    {[uuid |-> uuid, buf_uuids |-> buf_uuids, warmup |-> warmup,
      repeat |-> repeat, number |-> number, sync |-> sync] :
        uuid \in {1, 2}, buf_uuids \in {<<1>>, <<2, 1>>}, warmup \in {0, 1, 2},
        repeat \in {1, 2}, number \in {1, 2}, sync \in BOOLEAN}

\* receive tasks of one spec and of two; the first leaves the right half of
\* its buffer to the placeholder
ProfiledTasks ==
    {<<RecvSpec(1, <<1, 2>>, "float32", <<Left>>)>>,
     <<RecvSpec(0, <<1, 2>>, "float32", <<Left, Right>>),
       RecvSpec(1, <<1, 2>>, "int32", <<Whole>>)>>}

InitProfile ==
    /\ plan \in ProfilePlans
    /\ \E tasks \in ProfiledTasks, held \in SUBSET {1} :
          workers = [h \in {0} |->
                        [put_resharding_recv_task(NewWorker, 1, tasks, "g0").w
                            EXCEPT !.buffers =
                                [u \in held |-> Array("float32", <<1, 2>>, 4)]]]
    /\ run = AfterWarmup([stage |-> "warmup", set_empty_buffer |-> TRUE,
                          warmups |-> 0, rep |-> 0, num |-> 0, calls |-> 0,
                          timed |-> 0])
    /\ signal = FALSE
    /\ ret = NoCall
    /\ hist = <<>>
    /\ IdleMesh
    /\ IdleArgs

UnchangedByProfile ==
    UNCHANGED <<signal, hist, plan, meshes, used_port_set, actors, services, driver,
                clientVars>>

\* benchmark_func calls run_fn: a warm-up call or a timed one
RunFn ==
    /\ run.stage \in {"warmup", "timed"}
    /\ LET called == run_fn(W0, signal, plan.uuid, plan.buf_uuids,
                            run.set_empty_buffer)
           counted == [run EXCEPT !.set_empty_buffer = called.set_empty_buffer,
                                  !.calls = @ + 1,
                                  !.timed = IF run.stage = "timed" THEN @ + 1 ELSE @,
                                  !.warmups = IF run.stage = "warmup" THEN @ + 1 ELSE @,
                                  !.num = IF run.stage = "timed" THEN @ + 1 ELSE @]
       IN  /\ workers' = [workers EXCEPT ![0] = called.r.w]
           /\ ret' = [op |-> "run_resharding_recv_task", uuid |-> plan.uuid,
                      was |-> plan.uuid \in DOMAIN W0.recv_tasks,
                      res |-> called.r.res,
                      set_empty_buffer |-> run.set_empty_buffer,
                      call |-> counted.calls, timed |-> counted.timed]
           /\ run' = IF called.r.res # "ok" THEN [counted EXCEPT !.stage = "raised"]
                     ELSE IF run.stage = "warmup" THEN AfterWarmup(counted)
                     ELSE AfterTimed(counted)
    /\ UnchangedByProfile

\* benchmark_func calls sync_fn before or after the calls of a round
SyncFn ==
    /\ run.stage \in {"sync_before", "sync_after"}
    /\ run' = IF run.stage = "sync_before" THEN [run EXCEPT !.stage = "timed"]
              ELSE EnterRound([run EXCEPT !.rep = @ + 1])
    /\ UNCHANGED <<workers, ret>>
    /\ UnchangedByProfile

NextProfile ==
    \/ RunFn
    \/ SyncFn

SpecProfile == InitProfile /\ [][NextProfile]_vars

(***************************************************************************)
(* SpecTaskRuns: one worker that holds a send task and a receive task      *)
(* under uuid 1 runs them on lists of buffer uuids that are shorter than,  *)
(* as long as and longer than the task's list of specs (lines 322-340).    *)
(* `ret` holds the last run: its arguments, the exception if any, the      *)
(* tiles sent (out) and the number of collective calls made (ncomm).       *)
(***************************************************************************)
RunSendTasks ==
    {<<TileSpec(Whole)>>, <<TileSpec(Left), TileSpec(Right)>>,
     <<TileSpec(Right), TileSpec(Whole), TileSpec(Left)>>}

RunRecvTasks ==
    {<<RecvSpec(1, <<1, 2>>, "float32", <<Left>>)>>,
     <<RecvSpec(0, <<1, 2>>, "float32", <<Left, Right>>),
       RecvSpec(1, <<1, 2>>, "int32", <<Whole>>)>>,
     <<RecvSpec(0, <<1, 2>>, "float32", <<>>),
       RecvSpec(1, <<1, 2>>, "float32", <<Right, Whole, Left>>)>>}

RunBufLists == {<<>>, <<1>>, <<2>>, <<1, 2>>, <<2, 1>>, <<1, 1>>, <<1, 2, 1>>}

RunTaskUuids == {1, 2}

InitTaskRuns ==
    /\ \E send \in RunSendTasks, recv \in RunRecvTasks, held \in SUBSET {1, 2} :
          workers =
              [h \in {0} |->
                  [put_resharding_recv_task(
                       put_resharding_send_task(NewWorker, 1, send, "g0").w,
                       1, recv, "g0").w
                      EXCEPT !.buffers =
                          [u \in held |-> Array("float32", <<1, 2>>, 2 * u)]]]
    /\ signal \in BOOLEAN
    /\ ret = NoCall
    /\ hist = <<>>
    /\ IdleReshard
    /\ IdleMesh
    /\ IdleArgs

\* the run op(uuid, buf_uuids[, set_empty_buffer]) of the worker ended as r
TaskRun(op, uuid, buf_uuids, set_empty_buffer, r) ==
    /\ workers' = [workers EXCEPT ![0] = r.w]
    /\ ret' = [op |-> op, uuid |-> uuid, was |-> uuid \in DOMAIN MapOf(W0, op),
               res |-> r.res, buf_uuids |-> buf_uuids,
               set_empty_buffer |-> set_empty_buffer, out |-> r.out,
               ncomm |-> r.ncomm]
    /\ UNCHANGED <<signal, hist, run, plan, meshes, used_port_set, actors, services,
                   driver, clientVars>>

RunSendTaskOn ==
    \E uuid \in RunTaskUuids, buf_uuids \in RunBufLists :
        /\ SendTaskFits(W0, uuid, buf_uuids)
        /\ TaskRun("run_resharding_send_task", uuid, buf_uuids, FALSE,
                   run_resharding_send_task(W0, signal, uuid, buf_uuids))

RunRecvTaskOn ==
    \E uuid \in RunTaskUuids, buf_uuids \in RunBufLists, set_empty_buffer \in BOOLEAN :
        /\ RecvTaskFits(W0, uuid, buf_uuids, set_empty_buffer)
        /\ TaskRun("run_resharding_recv_task", uuid, buf_uuids, set_empty_buffer,
                   run_resharding_recv_task(W0, signal, uuid, buf_uuids,
                                            set_empty_buffer, PeerValue))

NextTaskRuns ==
    \/ RunSendTaskOn
    \/ RunRecvTaskOn

SpecTaskRuns == InitTaskRuns /\ [][NextTaskRuns]_vars

(***************************************************************************)
(* SpecGather: one worker that holds buffers 1 and 2 is handed allgather   *)
(* tasks and runs them (lines 342-360).  The groups of the tasks list the  *)
(* same devices in different orders, and a task may name a group twice.    *)
(* `ret` holds the last call: the task handed over or the buffer uuids     *)
(* the run was given, and the exception if any.                            *)
(***************************************************************************)
GatherGroups ==
    [g01 |-> AllGatherSpec(<<0, 1>>, <<Left, Right>>),
     g10 |-> AllGatherSpec(<<1, 0>>, <<Right, Left>>),
     g0 |-> AllGatherSpec(<<0>>, <<Whole>>),
     g1 |-> AllGatherSpec(<<1>>, <<Left>>)]

GatherTasks ==
    {<<>>, <<GatherGroups.g01>>, <<GatherGroups.g0>>,
     <<GatherGroups.g10, GatherGroups.g01>>,
     <<GatherGroups.g01, GatherGroups.g01>>,
     <<GatherGroups.g0, GatherGroups.g10, GatherGroups.g1>>}

GatherBufLists == {<<1>>, <<1, 2>>, <<2, 1>>, <<1, 2, 1>>}

InitGather ==
    /\ workers =
          [h \in {0} |->
              [NewWorker EXCEPT !.buffers =
                  [u \in {1, 2} |-> Array("float32", <<1, 2>>, 2 * u)]]]
    /\ signal \in BOOLEAN
    /\ ret = NoCall
    /\ hist = <<>>
    /\ IdleReshard
    /\ IdleMesh
    /\ IdleArgs

\* the call op(uuid, arg) of the worker ended as r
GatherCall(op, uuid, arg, r) ==
    /\ workers' = [workers EXCEPT ![0] = r.w]
    /\ ret' = [op |-> op, uuid |-> uuid,
               was |-> uuid \in DOMAIN W0.allgather_tasks, res |-> r.res,
               arg |-> arg]
    /\ UNCHANGED <<signal, hist, run, plan, meshes, used_port_set, actors, services,
                   driver, clientVars>>

PutAllgatherTaskOf(uuid, tasks) ==
    GatherCall("put_resharding_allgather_task", uuid, tasks,
               put_resharding_allgather_task(W0, uuid, tasks))

PutAllgatherTask ==
    \E uuid \in RunTaskUuids, tasks \in GatherTasks : PutAllgatherTaskOf(uuid, tasks)

RunAllgatherTaskOn ==
    \E uuid \in RunTaskUuids, buffer_uuids \in GatherBufLists :
        /\ AllgatherTaskFits(W0, uuid, buffer_uuids)
        /\ GatherCall("run_allgather_task", uuid, buffer_uuids,
                      run_allgather_task(W0, uuid, buffer_uuids))

NextGather ==
    \/ PutAllgatherTask
    \/ RunAllgatherTaskOn

SpecGather == InitGather /\ [][NextGather]_vars

(***************************************************************************)
(* SpecDelete: one worker that holds some of the buffers 1, 2 and 3 is     *)
(* asked to delete lists of up to three uuids, absent and repeated ones    *)
(* included, or one uuid (lines 117-122), and to put a buffer back.        *)
(* `ret` holds the last call: the uuids it was given and the exception if  *)
(* any.                                                                    *)
(***************************************************************************)
DeleteUuids == 1..3
DeleteLists == UNION {[1..n -> 1..4] : n \in 0..3}
DeleteArgs == {[iter |-> FALSE, ids |-> <<u>>] : u \in 1..4}
              \cup {[iter |-> TRUE, ids |-> ids] : ids \in DeleteLists}

InitDelete ==
    /\ \E held \in SUBSET DeleteUuids :
          workers =
              [h \in {0} |->
                  [NewWorker EXCEPT !.buffers =
                      [u \in held |-> Array("float32", <<1, 2>>, 2 * u)]]]
    /\ signal \in BOOLEAN
    /\ ret = NoCall
    /\ hist = <<>>
    /\ IdleReshard
    /\ IdleMesh
    /\ IdleArgs

\* the call op(uuids) of the worker ended as r
DeleteCall(op, uuids, r) ==
    /\ workers' = [workers EXCEPT ![0] = r.w]
    /\ ret' = [op |-> op, uuid |-> One(uuids), res |-> r.res, arg |-> uuids]
    /\ UNCHANGED <<signal, hist, run, plan, meshes, used_port_set, actors, services,
                   driver, clientVars>>

DeleteBuffersOf(uuids) ==
    DeleteCall("delete_buffers", uuids, delete_buffers(W0, uuids))

DeleteBuffersIn == \E uuids \in DeleteArgs : DeleteBuffersOf(uuids)

PutBufferBack ==
    \E u \in DeleteUuids :
        DeleteCall("put_buffer", [iter |-> FALSE, ids |-> <<u>>],
                   put_buffer(W0, u, 0, Array("float32", <<1, 2>>, 2 * u)))

NextDelete ==
    \/ DeleteBuffersIn
    \/ PutBufferBack

SpecDelete == InitDelete /\ [][NextDelete]_vars

\* SpecReshardFair: the two workers are running processes: a worker that can
\* take its next step takes it, and a collective call that has met its peer
\* call completes.
SpecReshardFair == SpecReshard /\ WF_vars(NextReshard)

(***************************************************************************)
(* Properties of the buffer calls, checked under Spec.                     *)
(***************************************************************************)

\* C1: on a worker that has its buffer map, put_buffer(uuid, device, data) on
\* a uuid already in the map fails and leaves the worker as it was; on an
\* absent uuid it succeeds and the map gains exactly uuid -> data, every
\* other entry and map untouched.  (Once shutdown has deleted the map the
\* call raises AttributeError and changes nothing.)
C1_PutBufferFreshOnly ==
    [][ret'.op = "put_buffer" =>
        LET u == ret'.uuid
            old == W0.buffers
            new == W0'.buffers
        IN  IF W0.shut
            THEN ret'.res = "AttributeError" /\ workers' = workers
            ELSE IF u \in DOMAIN old
            THEN ret'.res = "AssertionError" /\ workers' = workers
            ELSE /\ ret'.res = "ok"
                 /\ DOMAIN new = DOMAIN old \cup {u}
                 /\ new[u] = hist'[0][u].val
                 /\ \A v \in DOMAIN old : new[v] = old[v]
                 /\ W0' = [W0 EXCEPT !.buffers = new]]_vars

\* a put_buffer on a present uuid was refused
C1_Witness == ret.op = "put_buffer" /\ ret.was /\ ret.res = "AssertionError"

\* C2: while the last change to uuid u was a put_buffer of X, get_buffers(u)
\* returns a value equal to X; once u was deleted, get_buffers(u) fails with
\* a missing-key error until u is put again.
C2_PutGetDelete ==
    ~W0.shut =>
    \A u \in Uuids :
        LET r == get_buffers(W0, [iter |-> FALSE, ids |-> <<u>>])
        IN  /\ hist[0][u].tag = "put" =>
                r.res = "ok" /\ SameValue(r.out[1], hist[0][u].val)
            /\ hist[0][u].tag = "deleted" => r.res = "KeyError" /\ r.w = W0

\* a get of one uuid returned the value put under it
C2_Witness ==
    /\ ret.op = "get_buffers" /\ ret.uuid \in Uuids /\ ret.res = "ok"
    /\ hist[0][ret.uuid].tag = "put"

\* C5: put_non_zero_buffer never fails, whether or not the uuid is present;
\* afterwards the uuid maps to a tensor of the given shape and dtype on the
\* given device whose every element is 1e-8 in that dtype (an integer dtype
\* holds it as 0); the other entries are untouched.  (The only failure is
\* the AttributeError of a worker whose shutdown has deleted the map, and it
\* does not depend on the uuid.)
C5_PutNonZeroOverwrites ==
    \A uuid \in Uuids, device_id \in Devices, shape \in Shapes, dtype \in Dtypes :
        LET r == put_non_zero_buffer(W0, uuid, device_id, shape, dtype)
            b == r.w.buffers[uuid]
        IN  IF W0.shut THEN r = Outcome(W0, "AttributeError", <<>>, 0) ELSE
            /\ r.res = "ok"
            /\ DOMAIN r.w.buffers = DOMAIN W0.buffers \cup {uuid}
            /\ b.shape = shape /\ b.dtype = dtype /\ b.device = device_id
            /\ Len(b.data) = Size(shape)
            /\ \A j \in 1..Len(b.data) :
                  b.data[j] = IF dtype = "int32" THEN 0 ELSE FillValue
            /\ \A v \in DOMAIN W0.buffers \ {uuid} : r.w.buffers[v] = W0.buffers[v]
            /\ r.w = [W0 EXCEPT !.buffers = r.w.buffers]

\* a put_non_zero_buffer replaced the buffer of a present uuid
C5_Witness ==
    /\ ret.op = "put_non_zero_buffer" /\ ret.was /\ ret.res = "ok"
    /\ \A j \in 1..Len(W0.buffers[ret.uuid].data) :
          W0.buffers[ret.uuid].data[j] = FillValue

\* C6: on a worker that has its buffer map, recv_tile on a uuid with no
\* buffer fails with the error "Buffer has not been created", in signal mode
\* as in normal mode; nothing is received and the worker is unchanged.
C6_RecvTileNeedsBuffer ==
    \A uuid \in Uuids \ DOMAIN W0.buffers, sig \in BOOLEAN, device_id \in Devices,
       offset \in Tiles :
        ~W0.shut =>
        recv_tile(W0, sig, uuid, device_id, offset,
                  PeerPayload(Prod(SliceShape(offset)), PeerValue))
            = Outcome(W0, "RuntimeError", <<>>, 0)

\* in signal mode a recv_tile on an absent uuid was refused
C6_Witness ==
    signal /\ ret.op = "recv_tile" /\ ~ret.was /\ ret.res = "RuntimeError"

(***************************************************************************)
(* Properties of all the worker calls, checked under SpecTasks.            *)
(***************************************************************************)
PutOps ==
    {"put_buffer", "put_executable", "put_resharding_send_task",
     "put_resharding_recv_task", "put_resharding_allgather_task"}

\* C3: in each of the five uuid-keyed maps, a put with a uuid already in the
\* map is an error and leaves the existing entry in place.
C3_PutNeverReplaces ==
    [][ret'.op \in PutOps /\ ret'.was =>
          ret'.res # "ok" /\ workers' = workers]_vars

\* C4: a call given a uuid that is not in the map it addresses fails:
\* get_buffers, delete_buffers and block_until_ready_buffers with one uuid or
\* with a list that names it, delete_executable, run_executable,
\* run_resharding_send_task, run_resharding_recv_task and run_allgather_task.
\* The failure is a KeyError of the map; once shutdown has deleted the buffer
\* and executable maps it is the AttributeError of the missing map.
C4_AbsentUuidFails ==
    LET NoEntry == IF W0.shut THEN "AttributeError" ELSE "KeyError" IN
    \A u \in Uuids :
        /\ u \notin DOMAIN W0.buffers =>
              \A a \in UuidArgs :
                  (\E i \in 1..Len(a.ids) : a.ids[i] = u) =>
                      /\ get_buffers(W0, a) = Outcome(W0, NoEntry, <<>>, 0)
                      /\ block_until_ready_buffers(W0, a)
                            = Outcome(W0, NoEntry, <<>>, 0)
                      /\ delete_buffers(W0, a).res = NoEntry
                      /\ u \notin DOMAIN delete_buffers(W0, a).w.buffers
        /\ u \notin DOMAIN W0.executables =>
              /\ delete_executable(W0, u) = Outcome(W0, NoEntry, <<>>, 0)
              /\ run_executable(W0, u) = Outcome(W0, NoEntry, <<>>, 0)
        /\ u \notin DOMAIN W0.send_tasks =>
              \A ids \in BufLists, sig \in BOOLEAN :
                  run_resharding_send_task(W0, sig, u, ids)
                      = Outcome(W0, "KeyError", <<>>, 0)
        /\ u \notin DOMAIN W0.recv_tasks =>
              \A ids \in BufLists, sig \in BOOLEAN, set_empty_buffer \in BOOLEAN :
                  run_resharding_recv_task(W0, sig, u, ids, set_empty_buffer,
                                           FillValue)
                      = Outcome(W0, "KeyError", <<>>, 0)
        /\ u \notin DOMAIN W0.allgather_tasks =>
              \A ids \in BufLists :
                  run_allgather_task(W0, u, ids) = Outcome(W0, "KeyError", <<>>, 0)

\* a delete_executable of an absent uuid was refused while a task was registered
C4_Witness ==
    /\ ret.op = "delete_executable" /\ ~ret.was /\ ret.res = "KeyError"
    /\ TaskCount(W0) > 0

\* C7: a step adds a uuid to the buffer map only if it is a put_buffer, a
\* put_non_zero_buffer or a run_resharding_recv_task, and removes one only if
\* it is a delete_buffers or the worker's shutdown; a step adds a uuid to the
\* executable map only if it is a put_executable and removes one only if it
\* is a delete_executable or the shutdown.
C7_UuidSetsFrame ==
    [][LET oldb == DOMAIN W0.buffers
           newb == DOMAIN W0'.buffers
           olde == DOMAIN W0.executables
           newe == DOMAIN W0'.executables
       IN  /\ newb \ oldb # {} =>
                 ret'.op \in {"put_buffer", "put_non_zero_buffer",
                              "run_resharding_recv_task"}
           /\ oldb \ newb # {} => ret'.op \in {"delete_buffers", "shutdown"}
           /\ newe \ olde # {} => ret'.op = "put_executable"
           /\ olde \ newe # {} => ret'.op \in {"delete_executable", "shutdown"}]_vars

\* a send task ran to the end over buffers that are all still there
C7_Witness ==
    /\ ret.op = "run_resharding_send_task" /\ ret.was /\ ret.res = "ok"
    /\ DOMAIN W0.buffers = Uuids

(***************************************************************************)
(* Properties of a send task run against its receive task, checked under   *)
(* SpecReshard.                                                            *)
(***************************************************************************)
\* the elements of a region of a tensor, in row-major order of the region
Region(buf, offset) ==
    LET at == SortedSeq(SliceFlat(offset, buf.shape))
    IN  [j \in 1..Len(at) |-> buf.data[at[j] + 1]]

\* the tiles of a receive task in the order they are received: the buffer
\* each one lands in and its place there
RECURSIVE RecvOrder(_, _)
RecvOrder(recv_specs, buf_uuids) ==
    IF recv_specs = <<>> \/ buf_uuids = <<>> THEN <<>>
    ELSE [i \in 1..Len(Head(recv_specs).tile_specs) |->
             [uuid |-> Head(buf_uuids),
              offset |-> Head(recv_specs).tile_specs[i].offset]]
         \o RecvOrder(Tail(recv_specs), Tail(buf_uuids))

BothReturned == run.a.stage = "returned" /\ run.b.stage = "returned"

\* every tile region of B's destination buffers equals the region of A's
\* source it was sent from
TilesArrived ==
    LET dst == RecvOrder(RecvTask.recv_specs, plan.recv_bufs)
    IN  /\ Len(dst) = Len(SendTask.tile_specs)
        /\ \A t \in 1..Len(dst) :
              /\ dst[t].uuid \in DOMAIN workers[1].buffers
              /\ Region(workers[1].buffers[dst[t].uuid], dst[t].offset)
                    = Region(plan.src[plan.send_bufs[t]], SendTask.tile_specs[t].offset)

\* C8 as stated: once the send task on A and the matching receive task on B
\* have both returned, every received tile region on B holds the elements of
\* the corresponding region of A's source.
C8_AsStated == BothReturned => TilesArrived

\* C8: with signal-based diagnostics off, once the send task on A and the
\* matching receive task on B have both returned, every received tile region
\* on B holds exactly the elements of the corresponding region of A's source,
\* on the contiguous fast path and on the indexed slow path; A's buffers are
\* as they were.
C8_TilesArriveInNormalMode ==
    BothReturned /\ ~signal =>
        TilesArrived /\ workers[0].buffers = plan.src

\* both tasks returned in normal mode after moving a tile that is no
\* contiguous run of its source
C8_Witness ==
    /\ BothReturned /\ ~signal
    /\ \E t \in 1..Len(SendTask.tile_specs) :
          ~is_continuous_subset(SendTask.tile_specs[t].offset,
                                plan.src[plan.send_bufs[t]].shape)

(***************************************************************************)
(* Properties of the mesh life cycle, checked under SpecMesh.              *)
(***************************************************************************)

\* C9: the launched flag of a mesh goes from true to false only in a
\* shutdown call on that mesh; launch_xla_servers() on a launched
\* cluster-allocated mesh fails its assertion at once: no port is recorded,
\* no coordination service started, no worker spawned and no mesh changed.
C9_LaunchedUntilShutdown ==
    [][/\ \A m \in DOMAIN meshes :
             meshes[m].launched /\ ~meshes'[m].launched =>
                 ret'.op = "shutdown" /\ ret'.uuid = m
       /\ (driver.pc = "idle" /\ ret'.op = "launch_xla_servers"
             /\ meshes[ret'.uuid].launched) =>
                 /\ ret'.res = "AssertionError"
                 /\ driver'.pc = "idle"
                 /\ UNCHANGED <<meshes, used_port_set, actors, services>>]_vars

\* launch_xla_servers() was refused on a mesh that is launched
C9_Witness ==
    /\ ret.op = "launch_xla_servers" /\ ret.was /\ ret.res = "AssertionError"
    /\ M.launched /\ M.workers # None

\* C10: in a shutdown of a launched cluster-allocated mesh a worker is
\* killed only after every worker of the list has acknowledged its shutdown
\* call, unless forced; the worker list is dropped only after every worker in
\* it was killed, the coordination service is stopped only after that, and
\* launched becomes false last, when the call returns; a forced shutdown
\* awaits no worker and no worker runs its shutdown; a shutdown of a
\* cluster-allocated mesh that is not launched returns at once and changes
\* nothing; a shutdown of a local mesh synchronizes the local devices and
\* changes nothing.
C10_ShutdownOrder ==
    [][/\ \A a \in DOMAIN actors :
             actors[a].status # "killed" /\ actors'[a].status = "killed" =>
                 /\ ret.op = "shutdown" /\ a \in Range(MeshWorkers)
                 /\ driver.forced \/ \A b \in Range(MeshWorkers) :
                                        actors[b].status \in {"shut", "killed"}
       /\ \A a \in DOMAIN actors :
             actors[a].status # "shut" /\ actors'[a].status = "shut" =>
                 ret.op = "shutdown" /\ ~driver.forced /\ ret.was
       /\ driver'.pc = "acks" => ~driver'.forced
       /\ \A m \in DOMAIN meshes \cap DOMAIN meshes' :
             /\ meshes[m].workers # None /\ meshes'[m].workers = None =>
                   /\ ret.op = "shutdown" /\ ret.uuid = m
                   /\ meshes[m].workers[1] # <<>>
                   /\ \A b \in Range(meshes[m].workers[1]) : actors[b].status = "killed"
             /\ meshes[m].launched /\ ~meshes'[m].launched =>
                   /\ ret'.op = "shutdown" /\ ret'.uuid = m /\ ret'.res = "ok"
                   /\ meshes[m].workers = None /\ meshes[m].service_server = None
                   /\ \A v \in DOMAIN services :
                         services[v].port = meshes[m].server_address[1] =>
                             services[v].status = "stopped"
       /\ \A v \in DOMAIN services :
             services[v].status = "running" /\ services'[v].status = "stopped" =>
                 /\ ret.op = "shutdown" /\ M.service_server = Some(v)
                 /\ M.workers = None /\ M.launched
       /\ (driver.pc = "idle" /\ ret'.op = "shutdown"
             /\ is_distributed(meshes[ret'.uuid])) =>
                 IF meshes[ret'.uuid].launched
                 THEN /\ ret'.res = "running"
                      /\ driver'.pc = IF driver'.forced THEN "kill" ELSE "acks"
                 ELSE /\ ret'.res = "ok" /\ driver'.pc = "idle"
                      /\ UNCHANGED <<meshes, used_port_set, actors, services>>
       /\ (ret'.op = "shutdown" /\ ~is_distributed(meshes'[ret'.uuid])) =>
                 /\ UNCHANGED <<meshes, used_port_set, actors, services>>
                 /\ IF driver.pc = "idle"
                    THEN driver'.pc = "devices" /\ ret'.res = "running"
                    ELSE driver.pc = "devices" /\ driver'.pc = "idle"
                         /\ ret'.res = "ok"]_vars

\* a shutdown that was not forced, of a launched mesh of two hosts, has
\* killed both workers, dropped the list and stopped the service
C10_Witness ==
    /\ ret.op = "shutdown" /\ ret.was /\ ~driver.forced /\ driver.pc = "unlaunch"
    /\ M.num_hosts = 2 /\ M.workers = None
    /\ \E a, b \in DOMAIN actors :
          /\ a # b /\ actors[a].mesh = ret.uuid /\ actors[b].mesh = ret.uuid
          /\ actors[a].status = "killed" /\ actors[b].status = "killed"

\* C11: a shutdown call on a launched cluster-allocated mesh that has ended
\* has ended normally, whatever became of the workers' acknowledgments: every
\* worker of the mesh is killed, the worker list is dropped, the coordination
\* service is stopped and the mesh is no longer launched.
C11_ShutdownSwallowsFailure ==
    (ret.op = "shutdown" /\ driver.pc = "idle" /\ ret.was /\ is_distributed(M)) =>
        /\ ret.res = "ok"
        /\ M.workers = None /\ M.service_server = None /\ ~M.launched
        /\ \A a \in DOMAIN actors :
              actors[a].mesh = ret.uuid => actors[a].status = "killed"
        /\ \A v \in DOMAIN services :
              services[v].port = M.server_address[1] =>
                  services[v].status = "stopped"

\* C12: with one driver thread, every launch records a port that was not in
\* the used-port set before and lies in [20000, 25000), and makes it the
\* address of the mesh; the used-port set never loses a port; so the
\* coordination services ever started, and the meshes that hold a service,
\* have pairwise distinct ports, whichever meshes were launched, relaunched
\* or shut down before.
C12_PortsDistinct ==
    /\ [](/\ \A v, w \in DOMAIN services :
                v # w => services[v].port # services[w].port
          /\ \A v \in DOMAIN services :
                /\ services[v].port \in used_port_set
                /\ services[v].port \in PortLow..(PortHigh - 1)
          /\ \A m, n \in DOMAIN meshes :
                (m # n /\ meshes[m].server_address # None
                       /\ meshes[n].server_address # None) =>
                    meshes[m].server_address # meshes[n].server_address)
    /\ [][/\ used_port_set \subseteq used_port_set'
          /\ \A port \in used_port_set' \ used_port_set :
                /\ port \in PortLow..(PortHigh - 1)
                /\ used_port_set' = used_port_set \cup {port}
                /\ meshes'[ret.uuid].server_address = Some(port)
                /\ ret.op \in {"__init__", "launch_xla_servers"}]_vars

\* two meshes are launched on different ports; the first was launched, shut
\* down and, after the second had been constructed, launched again: three
\* services were started on three ports, the first of them stopped
C12_Witness ==
    /\ Len(meshes) = 2 /\ Len(services) = 3
    /\ meshes[1].launched /\ meshes[2].launched
    /\ meshes[1].service_server = Some(3) /\ meshes[2].service_server = Some(2)
    /\ meshes[1].server_address # meshes[2].server_address
    /\ services[1].status = "stopped"
    /\ services[2].status = "running" /\ services[3].status = "running"
    /\ Cardinality({services[v].port : v \in DOMAIN services}) = 3
    /\ ret.op = "launch_xla_servers" /\ ret.uuid = 1 /\ ret.res = "ok"

(***************************************************************************)
(* Properties of concurrent launches, checked under SpecThreads.           *)
(***************************************************************************)

\* C13: in concurrent launches the membership test and the insertion are
\* separate steps: a thread leaves the loop only with a port that is not in
\* the used-port set at that moment, and a thread that inserts does not test
\* again, it inserts the port it holds and makes it the address of its mesh
\* even when another thread has inserted the same port in between.
C13_TestAndInsertAreSeparate ==
    [][\A t \in Threads :
          /\ (driver[t].pc = "port" /\ driver'[t].pc # "port") =>
                /\ driver'[t].pc = "add"
                /\ driver'[t].port = driver[t].port
                /\ driver[t].port \notin used_port_set
                /\ UNCHANGED <<used_port_set, meshes>>
          /\ (driver[t].pc = "add" /\ driver'[t] # driver[t]) =>
                /\ driver'[t].pc = "done"
                /\ used_port_set' = used_port_set \cup {driver[t].port}
                /\ meshes'[t].server_address = Some(driver[t].port)
          /\ driver[t].pc = "done" => driver'[t] = driver[t]]_vars

\* both launches are done and the two meshes hold the same port
C13_Witness ==
    /\ \A t \in Threads : driver[t].pc = "done"
    /\ \E s, t \in Threads :
          /\ s # t
          /\ meshes[s].server_address # None
          /\ meshes[s].server_address = meshes[t].server_address

(***************************************************************************)
(* Properties of the driver's calls on a launched mesh, checked under      *)
(* SpecArgs.                                                               *)
(***************************************************************************)
\* C14: delete_remote_buffers and delete_remote_executable issue no request
\* and raise nothing when the mesh has no worker list or the cluster runtime
\* is not initialized; otherwise one delete_buffers request per ref joins the
\* pending requests, addressed to the worker of the ref's host, and one
\* delete_executable request per host, and no worker has served anything
\* when the call returns.
C14_DeleteRequests ==
    \A buf_refs \in {<<>>} \cup HeldRefs :
        LET mesh == meshes[1]
            b == delete_remote_buffers(Now, mesh, buf_refs)
            e == delete_remote_executable(Now, mesh, 1)
        IN  IF mesh.workers = None \/ ~ray_initialized
            THEN b = Now /\ e = Now
            ELSE /\ b.res = "ok" /\ b.workers = workers
                 /\ b.requests = requests \o
                        [i \in 1..Len(buf_refs) |->
                            Request(buf_refs[i].host_id, "delete_buffers",
                                    buf_refs[i].uuid, 0, NoTensor)]
                 /\ e.res = "ok" /\ e.workers = workers
                 /\ e.requests = requests \o
                        [h \in 1..mesh.num_hosts |->
                            Request(h - 1, "delete_executable", 1, 0, NoTensor)]

\* delete_remote_buffers returned after the mesh was shut down, with refs of
\* the mesh still held, and nothing was sent
C14_Witness ==
    /\ ret.op = "delete_remote_buffers" /\ ret.res = "ok"
    /\ meshes[1].workers = None
    /\ HeldRefs # {}
    /\ requests = <<>>

\* C15: when the last argument of a shard_args call on the distributed mesh
\* is the distributed array and the indices requested of it are the indices
\* it stores, the call does for that argument nothing but append the array's
\* own list of buffer refs: after the arguments before it no registry handler
\* is called, no ref is made, no request is issued and no array changes,
\* donated or not.
C15_FastPathReuses ==
    ray_initialized =>
        \A x \in ArgSamples :
            LET n == Len(x.args)
                before == shard_args(Now, 1, SubSeq(x.arg_indices, 1, n - 1),
                                     SubSeq(x.donated_invars, 1, n - 1),
                                     SubSeq(x.args, 1, n - 1), <<>>)
                all == shard_args(Now, 1, x.arg_indices, x.donated_invars, x.args, <<>>)
            IN  (x.args[n] = 4 /\ x.arg_indices[n] = arrays[4].indices) =>
                    IF before.res = "ok"
                    THEN all = [before EXCEPT
                                   !.value = Append(@, before.arrays[4].remote_buffers)]
                    ELSE all = [before EXCEPT !.value = <<>>]

\* shard_args returned the distributed array's own refs and made none
C15_Witness ==
    /\ ret.op = "shard_args" /\ ret.res = "ok"
    /\ ret.value = <<arrays[4].remote_buffers>>
    /\ remote_buffer_counter = Len(arrays[4].remote_buffers)
    /\ requests = <<>>

\* C16: shard_args given a replicated array looks up the replica registered
\* for the mesh: without one the call raises RuntimeError (NotFound); with one
\* whose indices differ from those requested it raises AssertionError (the
\* precondition); with one whose indices are those requested it returns that
\* replica's refs.  In each case nothing else happens: no handler of the
\* registry is called, no ref is made, no request issued, no array changed.
C16_ReplicaOfThisMesh ==
    ray_initialized =>
        \A a \in {a \in DOMAIN arrays : arrays[a].kind = "ReplicatedDistributedArray"} :
            \A indices \in IndexSamples(meshes[1].num_hosts
                                        * meshes[1].num_devices_per_host),
               donated \in BOOLEAN :
                LET r == shard_args(Now, 1, <<indices>>, <<donated>>, <<a>>, <<>>)
                    map == arrays[a]._mesh_array_map
                IN  IF 1 \notin DOMAIN map THEN r = [Now EXCEPT !.res = "RuntimeError"]
                    ELSE IF arrays[map[1]].indices # indices
                    THEN r = [Now EXCEPT !.res = "AssertionError"]
                    ELSE r = [Now EXCEPT !.value = <<arrays[map[1]].remote_buffers>>]

\* shard_args ended in RuntimeError for want of a replica on the mesh, and
\* nothing was made or sent
C16_Witness ==
    /\ ret.op = "shard_args" /\ ret.res = "RuntimeError"
    /\ remote_buffer_counter = Len(arrays[4].remote_buffers)
    /\ requests = <<>>

\* the event e is an awaited memory query `op` to worker 0
IsMemoryQuery(e, op) ==
    e = Event("get", Request(0, op, 0, 0, NoTensor))

\* the prior buffers of argument a are gone after the call that ended in x: a
\* device array is deleted; a distributed array holds its refs no longer, or
\* a delete_buffers request went out for each of them
PriorBuffersDeleted(a, x) ==
    IF arrays[a].kind = "DeviceArray" THEN x.arrays[a].deleted
    ELSE \/ x.arrays[a].remote_buffers = <<>>
         \/ \A i \in DOMAIN arrays[a].remote_buffers :
                \E k \in DOMAIN x.trace :
                    /\ x.trace[k].ev = "remote"
                    /\ x.trace[k].of.op = "delete_buffers"
                    /\ x.trace[k].of.uuid = arrays[a].remote_buffers[i].uuid

\* C17: a shard_args call that returns for one argument on the slow path
\* begins with the two awaited memory queries to worker 0 and ends with the
\* same two; in between the registry handler of the argument's kind is
\* called once and every ref returned is fresh; a donated argument that has a
\* delete method is deleted after the dispatch and its prior buffers are
\* gone, and any other argument is not deleted.
C17_SlowPathSteps ==
    (ray_initialized /\ meshes[1].launched) =>
        \A a \in {a \in DOMAIN arrays :
                     /\ arrays[a].kind # "ReplicatedDistributedArray"
                     /\ arrays[a].kind = "DeviceArray" => ~arrays[a].deleted} :
            \A indices \in IndexSamples(meshes[1].num_hosts
                                        * meshes[1].num_devices_per_host),
               donated \in BOOLEAN :
                LET x == shard_args(Now, 1, <<indices>>, <<donated>>, <<a>>, <<>>)
                    t == x.trace
                    n == Len(t)
                    kind == arrays[a].kind
                    dispatched == {k \in DOMAIN t : t[k] = Event("dispatch", kind)}
                    deleted == {k \in DOMAIN t : t[k].ev = "delete"}
                    made == {k \in DOMAIN t : t[k].ev = "RemoteBufferRef"}
                IN  (x.res = "ok" /\ ~(kind = "DistributedArray"
                                       /\ arrays[a].indices = indices)) =>
                        /\ n >= 5
                        /\ IsMemoryQuery(t[1], "get_memory_allocated")
                        /\ IsMemoryQuery(t[2], "get_max_memory_allocated")
                        /\ IsMemoryQuery(t[n - 1], "get_memory_allocated")
                        /\ IsMemoryQuery(t[n], "get_max_memory_allocated")
                        /\ Cardinality(dispatched) = 1
                        /\ \A d \in dispatched : 2 < d /\ d < n - 1
                        /\ Len(x.value) = 1
                        /\ Len(x.value[1]) = Len(indices)
                        /\ \A i \in DOMAIN x.value[1] :
                              /\ x.value[1][i].uuid = remote_buffer_counter + i
                              /\ \E k \in made : t[k].of = x.value[1][i]
                        /\ \A k \in made : \A d \in dispatched : d < k /\ k < n - 1
                        /\ IF donated /\ kind \in {"DeviceArray", "DistributedArray"}
                           THEN /\ deleted = {n - 2}
                                /\ t[n - 2].of = a
                                /\ PriorBuffersDeleted(a, x)
                           ELSE /\ deleted = {}
                                /\ kind = "DeviceArray" => ~x.arrays[a].deleted
                                /\ kind = "DistributedArray" =>
                                      x.arrays[a].remote_buffers
                                          = arrays[a].remote_buffers

(***************************************************************************)
(* Properties of the array objects, checked under SpecArrays.              *)
(***************************************************************************)
\* the (key, value) pairs of a map
Pairs(map) == {<<k, map[k]>> : k \in DOMAIN map}

\* C18: add_replica(mesh, array) on the replicated array raises RuntimeError
\* (AlreadyExists) and leaves the replicated array as it was when the array
\* is a key of the replica-to-mesh map or the mesh a key of the
\* mesh-to-replica map; otherwise it returns, the mesh-to-replica map has
\* gained the pair (mesh, array), the replica-to-mesh map the pair
\* (array, mesh), and nothing else has changed.
C18_AddReplica ==
    DOMAIN arrays # ArrayIds =>
        \A mesh \in MeshIds, array \in ArrayIds :
            LET r == arrays[Len(arrays)]
                x == add_replica(r, mesh, array)
            IN  IF \/ \E m \in MeshIds : <<array, m>> \in Pairs(r._array_mesh_map)
                   \/ \E a \in ArrayIds : <<mesh, a>> \in Pairs(r._mesh_array_map)
                THEN x.res = "RuntimeError" /\ x.value = r
                ELSE /\ x.res = "ok"
                     /\ Pairs(x.value._mesh_array_map)
                            = Pairs(r._mesh_array_map) \cup {<<mesh, array>>}
                     /\ Pairs(x.value._array_mesh_map)
                            = Pairs(r._array_mesh_map) \cup {<<array, mesh>>}
                     /\ x.value.aval = r.aval /\ x.value.kind = r.kind

\* add_replica was refused for a mesh that holds a replica, with an array
\* that is registered nowhere
C18_Witness ==
    /\ ret.op = "add_replica" /\ ret.res = "RuntimeError"
    /\ ret.args[1] \in DOMAIN arrays[Len(arrays)]._mesh_array_map
    /\ ret.args[2] \notin DOMAIN arrays[Len(arrays)]._array_mesh_map

\* C19: the two maps of the replicated array are inverse of each other: the
\* pair (mesh, array) is in the mesh-to-replica map exactly when the pair
\* (array, mesh) is in the replica-to-mesh map, so no array is the replica of
\* two meshes.
C19_MapsInverse ==
    DOMAIN arrays # ArrayIds =>
        LET r == arrays[Len(arrays)]
        IN  /\ \A p \in Pairs(r._mesh_array_map) :
                  <<p[2], p[1]>> \in Pairs(r._array_mesh_map)
            /\ \A p \in Pairs(r._array_mesh_map) :
                  <<p[2], p[1]>> \in Pairs(r._mesh_array_map)

\* C20: one_replica_buffer_indices of a distributed array is the increasing
\* list of the positions whose hashed index occurs at no earlier position, so
\* every hashed index of the list is represented by one position, its first;
\* the access changes nothing but the cached list, an access with the list
\* cached returns the cached list, and what the last access returned is what
\* the array still holds.
C20_FirstOccurrences ==
    \A a \in ArrayIds :
        LET array == arrays[a]
            n == Len(array.indices)
            hashed(i) == _hashable_index(array.indices[i + 1])
            read == one_replica_buffer_indices(array)
            one == read._one_replica_buffer_indices[1]
        IN  /\ \A k \in 1..(Len(one) - 1) : one[k] < one[k + 1]
            /\ Range(one) = {i \in 0..(n - 1) :
                                \A j \in 0..(i - 1) : hashed(j) # hashed(i)}
            /\ \A i \in 0..(n - 1) :
                  Cardinality({k \in DOMAIN one : hashed(one[k]) = hashed(i)}) = 1
            /\ read = [array EXCEPT !._one_replica_buffer_indices = Some(one)]
            /\ array._one_replica_buffer_indices # None => read = array
            /\ one_replica_buffer_indices(read) = read
            /\ (ret.op = "one_replica_buffer_indices" /\ ret.args[1] = a) =>
                  ret.value = one

\* the positions of array 1 were read: its second index differs from its
\* first and hashes like it, and positions 0 and 2 were returned
C20_Witness ==
    /\ ret.op = "one_replica_buffer_indices"
    /\ Len(arrays[1].indices) = 3
    /\ arrays[1].indices[2] # arrays[1].indices[1]
    /\ _hashable_index(arrays[1].indices[2]) = _hashable_index(arrays[1].indices[1])
    /\ ret.value = <<0, 2>>
    /\ arrays[1]._one_replica_buffer_indices = Some(<<0, 2>>)

\* C21: array._value of the distributed array with no host value cached
\* issues and then awaits one get_buffers request for each one-replica
\* position, in order and for no other buffer, and the value it returns and caches holds at the
\* logical index of each such position the data of the buffer fetched; with a
\* host value cached it returns that value and issues no request, and so does
\* the access that follows a first one.
C21_ValueFetchedOnce ==
    (ray_initialized /\ meshes[1].launched) =>
        LET array == arrays[4]
            x == _value(Now, 4)
            one == FirstSeen(array.indices, 0, {})
            ref(k) == array.remote_buffers[one[k] + 1]
            rq(k) == Request(ref(k).host_id, "get_buffers", ref(k).uuid, 0,
                             NoTensor)
        IN  IF array._npy_value # None
            THEN x = [Now EXCEPT !.value = array._npy_value[1]]
            ELSE x.res = "ok" =>
                   /\ x.trace = [k \in 1..Len(one) |-> Event("remote", rq(k))]
                                  \o [k \in 1..Len(one) |-> Event("get", rq(k))]
                   /\ x.value.shape = array.aval.shape
                   /\ \A k \in 1..Len(one) :
                         GetItem(x.value, array.indices[one[k] + 1]).data
                             = x.workers[ref(k).host_id].buffers[ref(k).uuid].data
                   /\ x.arrays[4]._npy_value = Some(x.value)
                   /\ _value(x, 4) = x

\* the first access fetched the two buffers of a two-shard array and cached
\* the value
C21_Witness ==
    /\ ret.op = "_value" /\ ret.res = "ok"
    /\ ret.fetched = 2
    /\ Len(arrays[4].indices) = 2
    /\ arrays[4]._npy_value = Some(ret.value)

\* C22: after DistributedArray.delete() the array holds none of its remote
\* buffer refs and no cached host value, and the call sent and awaited nothing.
C22_DeleteReleases ==
    ret.op = "delete" =>
        /\ arrays[4].remote_buffers = None
        /\ arrays[4]._npy_value = None
        /\ requests = <<>>

\* the put request for uuid that some worker has not served yet, if any
PendingPut(uuid) ==
    {k \in DOMAIN requests :
        requests[k].uuid = uuid
        /\ requests[k].op \in {"put_buffer", "put_non_zero_buffer"}}

\* C25: while the refs that shard_args made on its slow path are what the
\* driver last received, get_remote_buffers of such a list returns: each
\* worker has served the puts it was sent before it serves the fetch, so every
\* uuid is present, and the k-th value returned is the buffer put under the
\* k-th ref, the data of the put request when that is still pending.
C25_FetchFollowsPut ==
    (ray_initialized /\ meshes[1].launched /\ ret.op = "shard_args"
     /\ ret.res = "ok") =>
        \A i \in DOMAIN ret.value :
            LET refs == ret.value[i]
                g == get_remote_buffers(Now, meshes[1], refs)
            IN  (\A k \in DOMAIN refs : refs[k].uuid > Len(arrays[4].remote_buffers)) =>
                    /\ g.res = "ok"
                    /\ Len(g.value) = Len(refs)
                    /\ \A k \in DOMAIN refs :
                          /\ refs[k].uuid \in DOMAIN g.workers[refs[k].host_id].buffers
                          /\ g.value[k] = g.workers[refs[k].host_id].buffers[refs[k].uuid]
                          /\ PendingPut(refs[k].uuid) = {}
                             => g.value[k] = workers[refs[k].host_id].buffers[refs[k].uuid]
                          /\ \A p \in PendingPut(refs[k].uuid) :
                                /\ g.value[k].shape = requests[p].data.shape
                                /\ requests[p].op = "put_buffer"
                                   => g.value[k].data = requests[p].data.data
                    /\ \A k \in DOMAIN g.requests :
                          g.requests[k].op \notin {"put_buffer", "put_non_zero_buffer"}
                          \/ \A j \in DOMAIN refs :
                                g.requests[k].worker # refs[j].host_id

\* shard_args returned fresh refs and the put of one of them has not been
\* served yet (the memory queries that end the slow path make worker 0 serve
\* its puts, so the put is one sent to the other worker)
C25_Witness ==
    /\ ret.op = "shard_args" /\ ret.res = "ok"
    /\ ray_initialized /\ meshes[1].launched
    /\ \E i \in DOMAIN ret.value : \E k \in DOMAIN ret.value[i] :
          /\ ret.value[i][k].uuid > Len(arrays[4].remote_buffers)
          /\ PendingPut(ret.value[i][k].uuid) # {}

(***************************************************************************)
(* Properties of the virtual mesh and of the logical meshes, checked under *)
(* SpecTopology.                                                           *)
(***************************************************************************)
\* the (host position, device index) pairs of the submesh of grid cell (i, j)
CellPairs(h, d, i, j) ==
    ((i * h)..((i + 1) * h - 1)) \X ((j * d)..((j + 1) * d - 1))

\* C23: slice_profiling_submeshes(h, d) on a virtual mesh of shape (N, M)
\* returns floor(N/h) * floor(M/d) virtual submeshes in row-major grid order,
\* each of shape (h, d); the submesh of grid cell (i, j) holds the hosts at
\* positions i*h .. (i+1)*h-1 and the device indices j*d .. (j+1)*d-1, so the
\* submeshes are pairwise disjoint and the remainder hosts and devices are in
\* no submesh.
C23_ProfilingSubmeshes ==
    IsVirtual(meshes[1]) =>
        \A h \in SubmeshSizes \ {0}, d \in SubmeshSizes \ {0} :
            LET self == meshes[1]
                hosts == Len(self.host_ids)
                per_host == self.num_devices_per_host
                r == slice_profiling_submeshes(self, h, d)
                Cell(i, j) == r.value[i * (per_host \div d) + j + 1]
            IN  /\ r.res = "ok"
                /\ Len(r.value) = (hosts \div h) * (per_host \div d)
                /\ \A i \in 0..((hosts \div h) - 1), j \in 0..((per_host \div d) - 1) :
                      /\ IsVirtual(Cell(i, j))
                      /\ VirtualShape(Cell(i, j)) = <<h, d>>
                      /\ Cell(i, j).host_ids =
                            [k \in 1..h |-> self.host_ids[i * h + k]]
                      /\ Cell(i, j).host_info =
                            [k \in 1..h |-> self.host_info[i * h + k]]
                      /\ Cell(i, j).devices =
                            [k \in 1..h |-> [e \in 1..d |-> j * d + e - 1]]
                      /\ \A i2 \in 0..((hosts \div h) - 1), j2 \in 0..((per_host \div d) - 1) :
                            <<i, j>> # <<i2, j2>> =>
                                CellPairs(h, d, i, j) \cap CellPairs(h, d, i2, j2) = {}
                      /\ CellPairs(h, d, i, j) \subseteq
                            (0..((hosts \div h) * h - 1)) \X (0..((per_host \div d) * d - 1))

\* a mesh of three hosts with four devices each was cut into two submeshes
\* of two hosts and two devices each, the third host in neither
C23_Witness ==
    /\ ret.op = "slice_profiling_submeshes" /\ ret.res = "ok"
    /\ ret.args = <<2, 2>> /\ VirtualShape(meshes[1]) = <<3, 4>>
    /\ Len(ret.value) = 2
    /\ ret.value[2].devices = <<<<2, 3>>, <<2, 3>>>>
    /\ \A n \in 1..2 : ret.value[n].host_ids = SubSeq(meshes[1].host_ids, 1, 2)

\* range(num_devices_per_host) for every selected host: the device-id lists
\* slice_1d leaves to the constructor, handed to slice_2d
DefaultDeviceIndices(self, indices) ==
    [k \in DOMAIN indices |-> PyRange(0, self.num_devices_per_host)]

\* what the two slices select at `indices` on the mesh: a negative x is the
\* position counted from the end of the list
SlicePosition(indices, k) ==
    IF indices[k] >= 0 THEN indices[k] ELSE indices[k] + Len(meshes[1].host_ids)
SliceIdAt(indices, k) == meshes[1].host_ids[SlicePosition(indices, k) + 1]
SliceInRange(indices) ==
    \A k \in DOMAIN indices :
        indices[k] \in (0 - Len(meshes[1].host_ids))..(Len(meshes[1].host_ids) - 1)

\* slice_1d(0, indices) returns the host ids at the positions of indices, in
\* order, each with the descriptor host_info holds at the host-id value;
\* slice_2d returns the same host ids, each with the descriptor at the
\* position
SelectsByValueAndByPosition(indices) ==
    LET self == meshes[1]
        one == slice_1d(self, 0, indices)
        two == slice_2d(self, indices, DefaultDeviceIndices(self, indices))
    IN  /\ two.res = "ok" =>
              /\ two.value.host_ids =
                    [k \in DOMAIN indices |-> SliceIdAt(indices, k)]
              /\ two.value.host_info =
                    [k \in DOMAIN indices |->
                        self.host_info[SlicePosition(indices, k) + 1]]
        /\ one.res = "ok" =>
              /\ one.value.host_ids =
                    [k \in DOMAIN indices |-> SliceIdAt(indices, k)]
              /\ one.value.host_info =
                    [k \in DOMAIN indices |->
                        self.host_info[SliceIdAt(indices, k) + 1]]

\* C29 (as the code has it): slice_1d(0, indices) on a virtual mesh returns a
\* virtual mesh whose host ids are host_ids[x] for each x of indices, in
\* order, and whose k-th host descriptor is host_info indexed by the k-th
\* selected host-id value, not by the position x (the call fails with
\* IndexError when a position or a selected host id is out of range);
\* slice_2d selects the host ids and the host descriptors by position, and
\* fails on an empty selection, which slice_1d returns as a mesh of no hosts.
\* On positions in range the two agree exactly when the selection is not
\* empty and host_info holds, at every selected host-id value, the descriptor
\* it holds at the selected position; every selected host id being its
\* position is sufficient for that on a selection that is not empty, and
\* necessary on a mesh whose descriptors are pairwise distinct.
C29_SliceHostInfo ==
    IsVirtual(meshes[1]) =>
        \A indices \in HostIndexLists :
            LET self == meshes[1]
                IdsInRange == \A k \in DOMAIN indices :
                                 SliceIdAt(indices, k) < Len(self.host_info)
                IdsArePositions ==
                    \A k \in DOMAIN indices :
                        SliceIdAt(indices, k) = SlicePosition(indices, k)
                Distinct == \A i, j \in DOMAIN self.host_info :
                                self.host_info[i] = self.host_info[j] => i = j
                one == slice_1d(self, 0, indices)
                two == slice_2d(self, indices, DefaultDeviceIndices(self, indices))
            IN  /\ two.res = IF SliceInRange(indices) /\ indices # <<>>
                             THEN "ok" ELSE "IndexError"
                /\ one.res = IF SliceInRange(indices) /\ IdsInRange
                             THEN "ok" ELSE "IndexError"
                /\ SelectsByValueAndByPosition(indices)
                /\ indices = <<>> => one.res = "ok" /\ one.value.host_ids = <<>>
                /\ SliceInRange(indices) =>
                      /\ (one = two) <=>
                            /\ indices # <<>>
                            /\ IdsInRange
                            /\ \A k \in DOMAIN indices :
                                  self.host_info[SliceIdAt(indices, k) + 1] =
                                  self.host_info[SlicePosition(indices, k) + 1]
                      /\ (indices # <<>> /\ IdsArePositions) => one = two
                      /\ (Distinct /\ one = two) => IdsArePositions

\* C29 as stated: on positions in range the two slices agree exactly when
\* every selected host id equals its position in the parent mesh
C29_AgreeExactlyWhenIdIsPosition ==
    IsVirtual(meshes[1]) =>
        \A indices \in HostIndexLists :
            LET self == meshes[1]
                one == slice_1d(self, 0, indices)
                two == slice_2d(self, indices, DefaultDeviceIndices(self, indices))
            IN  /\ SelectsByValueAndByPosition(indices)
                /\ SliceInRange(indices) =>
                      ((one = two) <=>
                          \A k \in DOMAIN indices :
                              SliceIdAt(indices, k) = SlicePosition(indices, k))

\* the mesh of hosts 1 and 0 was sliced along the host axis at positions 0 and
\* 1: host 1 got the descriptor at position 1 of the parent, which is host 0's
C29_Witness ==
    /\ ret.op = "slice_1d" /\ ret.args = <<0, <<0, 1>>>> /\ ret.res = "ok"
    /\ ret.value.host_ids = <<1, 0>>
    /\ ret.value.host_info = <<ClusterHostInfo[1], ClusterHostInfo[2]>>

\* C26: get_default_logical_mesh returns a logical mesh of shape (num_hosts,
\* num_devices_per_host) with alpha = [1, 1]; beta is [1, 1] on a mesh of one
\* host, and on a mesh of several hosts [1, 0.01] for the driver-side mesh but
\* [1, 0.1] for the virtual mesh.
C26_DefaultLogicalMesh ==
    LET self == meshes[1]
        H == IF IsVirtual(self) THEN Len(self.host_ids) ELSE self.num_hosts
        r == IF IsVirtual(self) THEN virtual_get_default_logical_mesh(self)
             ELSE get_default_logical_mesh(self)
    IN  /\ r.res = "ok"
        /\ r.value.physical_mesh = self
        /\ r.value.id_mesh.shape = <<H, self.num_devices_per_host>>
        /\ r.value.id_mesh.ids =
              [k \in 1..(H * self.num_devices_per_host) |-> k - 1]
        /\ r.value.mesh_alpha = <<Frac(1, 1), Frac(1, 1)>>
        /\ r.value.mesh_beta =
              IF H = 1 THEN <<Frac(1, 1), Frac(1, 1)>>
              ELSE IF IsVirtual(self) THEN <<Frac(1, 1), Frac(1, 10)>>
              ELSE <<Frac(1, 1), Frac(1, 100)>>

\* the default logical mesh of a launched mesh of two hosts was taken
C26_Witness ==
    /\ ret.op = "get_default_logical_mesh" /\ ret.res = "ok"
    /\ ~IsVirtual(meshes[1]) /\ meshes[1].num_hosts = 2
    /\ ret.value.mesh_beta = <<Frac(1, 1), Frac(1, 100)>>
    /\ ret.value.id_mesh.shape = <<2, meshes[1].num_devices_per_host>>

\* a <= b for fractions
FracLeq(a, b) == ~FracLess(b, a)

\* The tree model of get_logical_mesh on the driver-side mesh meshes[1]: for
\* every mesh_shape of two axes that holds the devices of the mesh and every
\* pair of bandwidths, alpha is [1, 1] and beta[axis] is 1 / bandwidth, where
\* bandwidth is the minimum of intra_host_bandwidth and, over the boundary
\* crossings of column 0 (axis 0) or row 0 (axis 1), of inter_host_bandwidth /
\* link_count.  The link count of a host pair is the number of adjacent ring
\* pairs of cells on these two hosts, counted over the whole grid
\* (whole_grid) or over column 0 (row 0) alone.
TreeModel(whole_grid) ==
    ~IsVirtual(meshes[1]) =>
        \A mesh_shape \in LogicalShapes(num_devices(meshes[1])),
           bandwidth \in Bandwidths, axis \in {0, 1} :
            LET self == meshes[1]
                r == get_logical_mesh(self, mesh_shape, None, None, Some("tree"),
                                      bandwidth[1], bandwidth[2])
                Host(c) == (c[1] * mesh_shape[2] + c[2]) \div self.num_devices_per_host
                Succ(c) == IF axis = 0 THEN <<(c[1] + 1) % mesh_shape[1], c[2]>>
                           ELSE <<c[1], (c[2] + 1) % mesh_shape[2]>>
                Grid == (0..(mesh_shape[1] - 1)) \X (0..(mesh_shape[2] - 1))
                Walked == {c \in Grid : IF axis = 0 THEN c[2] = 0 ELSE c[1] = 0}
                Crossing(c) == Host(c) # Host(Succ(c))
                Links(c) ==
                    Cardinality({e \in IF whole_grid THEN Grid ELSE Walked :
                                    {Host(e), Host(Succ(e))} = {Host(c), Host(Succ(c))}})
                \* 1 / bandwidth for every candidate bandwidth
                Inverses ==
                    {FracDiv(Frac(1, 1), bandwidth[1])} \cup
                    {FracDiv(Frac(Links(c), 1), bandwidth[2]) :
                        c \in {c \in Walked : Crossing(c)}}
            IN  (Len(mesh_shape) = 2 /\ Prod(mesh_shape) = num_devices(self)) =>
                    /\ r.res = "ok"
                    /\ r.value.mesh_alpha = <<Frac(1, 1), Frac(1, 1)>>
                    /\ Len(r.value.mesh_beta) = 2
                    /\ r.value.mesh_beta[axis + 1] \in Inverses
                    /\ \A x \in Inverses : FracLeq(x, r.value.mesh_beta[axis + 1])

\* C27 (as the code has it): in get_logical_mesh with mesh_topology = "tree",
\* the inter-host link count of a host pair is tallied over every column of
\* the host grid for axis 0 (one link per adjacent ring pair of cells of any
\* column that lie on different hosts) and over every row for axis 1; only
\* the minimum is taken along column 0 (row 0): the axis bandwidth is the
\* minimum of intra_host_bandwidth and inter_host_bandwidth / link_count over
\* the boundary crossings of column 0 (row 0), and beta[axis] = 1 / bandwidth.
C27_TreeLinksOfWholeGrid == TreeModel(TRUE)

\* C27 (as stated): the link count of a host pair used for axis 0 is tallied
\* from column 0 of the host grid only, and for axis 1 from row 0 only.
C27_TreeLinksOfWalkedLine == TreeModel(FALSE)

\* the tree model was asked of a mesh of two hosts with two devices each, laid
\* out as a 2 x 2 grid, with intra-host bandwidth 8 and inter-host bandwidth
\* 16: hosts 0 and 1 are joined by four links, two in each column, so the
\* axis-0 bandwidth is 16 / 4 and not 16 / 2
C27_Witness ==
    /\ ret.op = "get_logical_mesh" /\ ret.res = "ok"
    /\ ~IsVirtual(meshes[1])
    /\ meshes[1].num_hosts = 2 /\ meshes[1].num_devices_per_host = 2
    /\ ret.args = <<<<2, 2>>, None, None, Some("tree"), Frac(8, 1), Frac(16, 1)>>
    /\ ret.value.mesh_beta = <<Frac(1, 4), Frac(1, 8)>>

\* C28: every logical mesh produced by get_logical_mesh,
\* get_default_logical_mesh or get_1d_logical_mesh of a driver-side or virtual
\* mesh, whatever mesh_shape, mesh_alpha, mesh_beta and mesh_topology were
\* supplied, has alpha and beta vectors with exactly one entry per axis of
\* mesh_shape.
C28_OneCoefficientPerAxis ==
    (/\ ret.op \in {"get_logical_mesh", "get_default_logical_mesh",
                    "get_1d_logical_mesh"}
     /\ ret.res = "ok") =>
        /\ Len(ret.value.mesh_alpha) = Len(ret.value.id_mesh.shape)
        /\ Len(ret.value.mesh_beta) = Len(ret.value.id_mesh.shape)

(***************************************************************************)
(* Properties of the constructors, checked under SpecMesh.                 *)
(***************************************************************************)
\* the explicit device-id lists do not fit a mesh of num_hosts hosts with
\* num_devices_per_host devices each
Mismatch(num_hosts, num_devices_per_host, devices) ==
    /\ devices # None
    /\ \/ Len(devices[1]) # num_hosts
       \/ \E k \in DOMAIN devices[1] : Len(devices[1][k]) # num_devices_per_host

\* C24: constructing a cluster-allocated mesh handle or a virtual mesh with
\* explicit per-host device-id lists fails with RuntimeError (InvalidInput)
\* when the number of lists differs from the number of hosts or a list's
\* length differs from num_devices_per_host, and only then; the failure comes
\* before any launch step: no port is recorded in the used-port set, no
\* coordination service is started, no worker is spawned, and the driver is
\* left idle.  With lists that fit, the handle goes on to its launch.  (Only
\* a step that leaves the constructor's name in ret can be a construction.)
C24_InvalidDevicesRejected ==
    [][/\ (ret'.op = "__init__" /\ ret'.use_ray) =>
            \A num_hosts \in HostCounts, num_devices_per_host \in DeviceCounts,
               devices \in ConstructDevices :
               ConstructWith(TRUE, num_hosts, num_devices_per_host, devices) =>
                   IF Mismatch(num_hosts, num_devices_per_host, devices)
                   THEN /\ ret'.res = "RuntimeError"
                        /\ driver' = Idle
                        /\ UNCHANGED <<meshes, used_port_set, actors, services>>
                   ELSE /\ ret'.res = "running"
                        /\ driver'.pc = "port"
                        /\ Len(meshes') = Len(meshes) + 1
       /\ ret'.op = "VirtualPhysicalMesh" =>
            \A num_hosts \in HostCounts, num_devices_per_host \in DeviceCounts,
               devices \in ConstructDevices :
               ConstructVirtualWith(num_hosts, num_devices_per_host, devices) =>
                   /\ ret'.res = IF Mismatch(num_hosts, num_devices_per_host, devices)
                                 THEN "RuntimeError" ELSE "ok"
                   /\ UNCHANGED <<meshes, used_port_set, actors, services, driver>>
      ]_vars

\* a cluster-allocated mesh was constructed with lists that do not fit: there
\* is no mesh, no port but the initial entry, no service and no worker
C24_Witness ==
    /\ ret.op = "__init__" /\ ret.use_ray /\ ret.res = "RuntimeError"
    /\ driver = Idle
    /\ meshes = <<>> /\ used_port_set = {NoPort}
    /\ actors = <<>> /\ services = <<>>

(***************************************************************************)
(* Properties of the memory statistics, checked under SpecMemory.          *)
(***************************************************************************)
\* what a sync of the mesh reaches: its workers, or its local devices
MemoryUnits ==
    IF is_distributed(meshes[1]) THEN 0..(meshes[1].num_hosts - 1)
    ELSE 0..(Len(meshes[1].devices) - 1)

\* C30: each of the mesh-level get_memory_allocated, get_max_memory_allocated,
\* get_available_memory and reset_memory_stats first forces a sync of every
\* worker (of every local device in local mode) and only afterwards reads or
\* clears the counters of each of them; the three queries return the maximum,
\* the maximum and the minimum of the per-worker (per-device) figures.  It is
\* stated of a call that has returned, whose events ret.trace lists in order.
C30_SyncBeforeMemoryStats ==
    (/\ ret.op \in {"get_memory_allocated", "get_max_memory_allocated",
                    "get_available_memory", "reset_memory_stats"}
     /\ ret.res = "ok") =>
        /\ \A k \in DOMAIN ret.trace :
              ret.trace[k].ev \in {"read", "clear"} =>
                  \A u \in MemoryUnits :
                      \E j \in 1..(k - 1) : ret.trace[j] = Event("sync", u)
        /\ \A u \in MemoryUnits :
              \E k \in DOMAIN ret.trace :
                  ret.trace[k] = Event(IF ret.op = "reset_memory_stats"
                                       THEN "clear" ELSE "read", u)
        /\ ret.op # "reset_memory_stats" =>
              /\ Len(ret.figures) = Cardinality(MemoryUnits)
              /\ ret.value = IF ret.op = "get_available_memory"
                             THEN SetMin(Range(ret.figures))
                             ELSE SetMax(Range(ret.figures))

(***************************************************************************)
(* Properties of the timers, checked under SpecTimers.                     *)
(***************************************************************************)
\* the served request op(timer_name) to worker h
TimerRequest(h, op, timer_name) ==
    Event("get", TimerRequestTo(h, op, timer_name))

\* what the steps of the two calls do; reset_all says whether
\* reset_remote_timer asks every worker of a distributed mesh or worker 0 only
TimerModel(reset_all) ==
    /\ \A timer_name \in TimerNames :
          /\ GetRemoteTimerOf(timer_name) =>
                IF is_distributed(meshes[1])
                THEN /\ requests' = <<TimerRequestTo(0, "get_timer", timer_name)>>
                     /\ ret'.res = "running"
                     /\ workers' = workers /\ meshes' = meshes
                ELSE /\ requests' = <<>>
                     /\ ret'.res = "ok" /\ ret'.trace = <<>>
                     /\ ret'.value =
                           timers(meshes[1].timers, timer_name)[timer_name]
                     /\ workers' = workers
          /\ ResetRemoteTimerOf(timer_name) =>
                IF is_distributed(meshes[1])
                THEN /\ requests' = <<TimerRequestTo(0, "reset_timer", timer_name)>>
                     /\ ret'.res = "running"
                     /\ workers' = workers /\ meshes' = meshes
                ELSE /\ requests' = <<>>
                     /\ ret'.res = "ok" /\ ret'.trace = <<>>
                     /\ meshes'[1].timers[timer_name] = 0
                     /\ workers' = workers
    /\ WorkerAnswers =>
          LET rq == requests[1]
          IN  /\ Len(requests) = 1 /\ requests' = <<>>
              /\ ret'.trace = Append(ret.trace, Event("get", rq))
              /\ \A h \in DOMAIN workers \ {rq.worker} : workers'[h] = workers[h]
              /\ meshes' = meshes
              /\ IF rq.op = "get_timer"
                 THEN /\ rq.worker = 0
                      /\ driver'.got[0] =
                            Some(timers(workers[0].timers, rq.name)[rq.name])
                      /\ workers'[0].timers = timers(workers[0].timers, rq.name)
                 ELSE workers'[rq.worker].timers[rq.name] = 0
    /\ RayGetReturns =>
          /\ workers' = workers /\ meshes' = meshes
          /\ IF ret.op = "get_remote_timer"
             THEN /\ ret'.res = "ok"
                  /\ ret'.trace = <<TimerRequest(0, "get_timer", ret.name)>>
                  /\ ret'.value = driver.got[0][1]
                  /\ requests' = <<>>
             ELSE LET asked == IF reset_all THEN meshes[1].num_hosts ELSE 1
                  IN  IF Len(ret.trace) < asked
                      THEN /\ ret'.res = "running"
                           /\ requests' = <<TimerRequestTo(Len(ret.trace),
                                                           "reset_timer", ret.name)>>
                      ELSE /\ ret'.res = "ok" /\ ret'.value = None
                           /\ ret'.trace =
                                 [k \in 1..asked |->
                                     TimerRequest(k - 1, "reset_timer", ret.name)]
                           /\ requests' = <<>>

\* C31 (as the code has it): on a distributed mesh get_remote_timer issues
\* one awaited get_timer request to worker 0 and none to any other worker,
\* while reset_remote_timer issues one awaited reset_timer request to every
\* worker of the mesh, in worker order and each sent when the one before has
\* been served, so that the timer is reset on each of them; on a local mesh
\* both read or reset the timer registry of the driver process and issue no
\* worker request.
C31_ResetAsksEveryWorker == [][TimerModel(TRUE)]_vars

\* C31 as stated: reset_remote_timer, too, asks worker 0 only
C31_BothAskWorkerZeroOnly == [][TimerModel(FALSE)]_vars

\* reset_remote_timer returned on a mesh of two hosts: both workers were
\* asked, and the timer is reset on the second worker, whose other timer
\* keeps its time
C31_Witness ==
    /\ ret.op = "reset_remote_timer" /\ ret.res = "ok"
    /\ is_distributed(meshes[1]) /\ meshes[1].num_hosts = 2
    /\ Len(ret.trace) = 2
    /\ ret.trace[2].of.worker = 1
    /\ workers[1].timers[ret.name] = 0
    /\ \E other \in TimerNames \ {ret.name} :
          other \in DOMAIN workers[1].timers /\ workers[1].timers[other] = 1

(***************************************************************************)
(* Properties of the shard-put step, checked under SpecPut.                *)
(***************************************************************************)
\* C32: sharding a host array onto a mesh of H hosts with D devices per host
\* issues exactly H*D put requests in host-major order: shard number
\* k = h*D + d goes to worker h at device index d; the list returned holds
\* H*D buffer refs in that order, each with owning host h, device index d,
\* the shard's dtype and a uuid no other ref has; the request of shard k is
\* put_buffer with the shard's data or, under the benchmarking
\* configuration, put_non_zero_buffer with the shard's shape and dtype.
C32_ShardPutHostMajor ==
    [][\A indices \in PutIndexSamples(meshes[1].num_hosts
                                     * meshes[1].num_devices_per_host) :
          ShardArrayWith(indices) =>
             LET H == meshes[1].num_hosts
                 D == meshes[1].num_devices_per_host
                 shard(k) == GetItem(arrays[1].value, indices[k + 1])
             IN  /\ ret'.res = "ok"
                 /\ Len(ret'.value) = H * D
                 /\ Len(requests') = H * D
                 /\ \A h \in 0..(H - 1), d \in 0..(D - 1) :
                       LET k == h * D + d
                           ref == ret'.value[k + 1]
                           rq == requests'[k + 1]
                       IN  /\ ref.host_id = h /\ ref.device_id = d
                           /\ ref.dtype = shard(k).dtype
                           /\ rq.worker = h /\ rq.device_id = d
                           /\ rq.uuid = ref.uuid
                           /\ IF use_dummy_value_for_benchmarking
                              THEN /\ rq.op = "put_non_zero_buffer"
                                   /\ rq.data.shape = shard(k).shape
                                   /\ rq.data.dtype = shard(k).dtype
                                   /\ rq.data.data = <<>>
                              ELSE /\ rq.op = "put_buffer"
                                   /\ rq.data = shard(k)
                 /\ \A i, j \in 1..(H * D) :
                       i # j => ret'.value[i].uuid # ret'.value[j].uuid
                 /\ \A i \in 1..(H * D) : ret'.value[i].uuid > remote_buffer_counter
      ]_vars

\* a host array was sharded onto two hosts with two devices each and every
\* worker has served its requests: the third shard is on host 1, device 0
C32_Witness ==
    /\ ret.op = "_shard_array" /\ ret.res = "ok"
    /\ meshes[1].num_hosts = 2 /\ meshes[1].num_devices_per_host = 2
    /\ Len(ret.value) = 4
    /\ ret.value[3].host_id = 1 /\ ret.value[3].device_id = 0
    /\ requests = <<>>
    /\ ret.value[3].uuid \in DOMAIN workers[1].buffers
    /\ workers[1].buffers[ret.value[3].uuid].device = 0
    /\ ret.value[2].uuid \in DOMAIN workers[0].buffers
    /\ workers[0].buffers[ret.value[2].uuid].device = 1

(***************************************************************************)
(* Properties of the profiling run, checked under SpecProfile.             *)
(***************************************************************************)
\* the pairs zip(recv_specs, buf_uuids) of the profiled task
ProfiledPairs ==
    1..Min(Len(W0.recv_tasks[plan.uuid].recv_specs), Len(plan.buf_uuids))

\* the call that ret records put a placeholder in place of every paired
\* buffer it found: outside the tiles received, the buffer holds 1e-8
PlaceholdersPut ==
    \A k \in ProfiledPairs :
        LET recv_spec == W0.recv_tasks[plan.uuid].recv_specs[k]
            buf == W0.buffers[plan.buf_uuids[k]]
        IN  /\ buf.shape = recv_spec.shape
            /\ buf.dtype = recv_spec.dtype
            /\ buf.device = recv_spec.device_id
            /\ \A j \in 1..Len(buf.data) :
                  (\A i \in 1..Len(recv_spec.tile_specs) :
                       (j - 1) \notin SliceFlat(recv_spec.tile_specs[i].offset,
                                              buf.shape))
                  => buf.data[j] = AsType(FillValue, buf.dtype)

\* C33 (as the code has it): profile_resharding_recv_task allocates fresh
\* placeholder buffers only on the first call benchmark_func makes of the
\* stored receive task, which is a warm-up call unless warmup = 0; every
\* later call of the same profiling run, warm-up or timed, executes with
\* set_empty_buffer = false and reuses the buffers already populated.
C33_AllocatesOnFirstCallOnly ==
    ret.op = "run_resharding_recv_task" =>
        /\ ret.set_empty_buffer <=> ret.call = 1
        /\ (ret.call = 1 /\ ret.res = "ok") => PlaceholdersPut

\* C33 as stated: the call that allocates is the first timed call
C33_AllocatesOnFirstTimedCall ==
    ret.op = "run_resharding_recv_task" =>
        (ret.set_empty_buffer <=> (ret.timed = 1 /\ ret.call = plan.warmup + 1))

\* the second timed call of a run with one warm-up call has run: it did not
\* allocate, and the buffer still holds, right of the tile received, the
\* 1e-8 of the placeholder the warm-up call put there
C33_Witness ==
    /\ ret.op = "run_resharding_recv_task" /\ ret.res = "ok"
    /\ plan.warmup = 1 /\ ret.timed = 2 /\ ret.call = 3
    /\ ~ret.set_empty_buffer
    /\ PlaceholdersPut
    /\ W0.buffers[1].data = <<PeerValue, FillValue>>

(***************************************************************************)
(* Properties of the task runs, checked under SpecTaskRuns.                *)
(***************************************************************************)
\* the calls a receive-task run is to make, in order: for every pair of
\* zip(recv_specs, buf_uuids) the placeholder (when set_empty_buffer) and
\* then one recv_tile per tile spec, all on the buffer uuid of the pair
RECURSIVE RecvCalls(_, _, _)
RecvCalls(recv_specs, buf_uuids, set_empty_buffer) ==
    IF recv_specs = <<>> \/ buf_uuids = <<>> THEN <<>>
    ELSE LET recv_spec == Head(recv_specs)
         IN  (IF set_empty_buffer
              THEN <<[op |-> "put_non_zero_buffer", uuid |-> Head(buf_uuids),
                      device_id |-> recv_spec.device_id, shape |-> recv_spec.shape,
                      dtype |-> recv_spec.dtype]>>
              ELSE <<>>)
             \o [i \in 1..Len(recv_spec.tile_specs) |->
                    [op |-> "recv_tile", uuid |-> Head(buf_uuids),
                     device_id |-> recv_spec.device_id,
                     offset |-> recv_spec.tile_specs[i].offset]]
             \o RecvCalls(Tail(recv_specs), Tail(buf_uuids), set_empty_buffer)

\* the calls a send-task run is to make: one send_tile per pair of
\* zip(tile_specs, buf_uuids)
RECURSIVE SendCalls(_, _)
SendCalls(tile_specs, buf_uuids) ==
    IF tile_specs = <<>> \/ buf_uuids = <<>> THEN <<>>
    ELSE <<[op |-> "send_tile", uuid |-> Head(buf_uuids),
            offset |-> Head(tile_specs).offset]>>
         \o SendCalls(Tail(tile_specs), Tail(buf_uuids))

\* the worker makes the calls one after the other and stops at the first
\* that raises; acc is the outcome of the calls made so far
RECURSIVE MakeCalls(_, _, _)
MakeCalls(acc, sig, calls) ==
    IF calls = <<>> \/ acc.res # "ok" THEN acc
    ELSE LET call == Head(calls)
             r == CASE call.op = "put_non_zero_buffer" ->
                          put_non_zero_buffer(acc.w, call.uuid, call.device_id,
                                              call.shape, call.dtype)
                    [] call.op = "recv_tile" ->
                          recv_tile(acc.w, sig, call.uuid, call.device_id, call.offset,
                                    PeerPayload(Prod(SliceShape(call.offset)),
                                                PeerValue))
                    [] call.op = "send_tile" ->
                          send_tile(acc.w, sig, call.uuid, call.offset)
         IN  MakeCalls(Outcome(r.w, r.res, acc.out \o r.out, acc.ncomm + r.ncomm),
                       sig, Tail(calls))

\* the calls of a list that are collective calls
Collectives(calls) ==
    Cardinality({i \in DOMAIN calls : calls[i].op \in {"recv_tile", "send_tile"}})

\* two outcomes leave the same worker, raise the same and made as many
\* collective calls
SameRun(a, b) == a.w = b.w /\ a.res = b.res /\ a.ncomm = b.ncomm

\* C34: run_resharding_recv_task pairs the stored receive specs positionally
\* with the buffer uuids it is given and, for each pair in order, first (when
\* set_empty_buffer) puts the placeholder of the spec's device, shape and
\* dtype and then calls recv_tile exactly once per tile spec of that receive
\* spec, in the stored order, all on the buffer uuid of the pair;
\* run_resharding_send_task calls send_tile exactly once per (tile spec,
\* buffer uuid) pair in stored order; in both, the specs or uuids beyond the
\* shorter of the two lists are ignored and raise nothing.
C34_PositionalPairing ==
    \A buf_uuids \in RunBufLists :
        /\ SendTaskFits(W0, 1, buf_uuids) =>
              LET tile_specs == W0.send_tasks[1].tile_specs
                  calls == SendCalls(tile_specs, buf_uuids)
                  r == run_resharding_send_task(W0, signal, 1, buf_uuids)
                  made == MakeCalls(Outcome(W0, "ok", <<>>, 0), signal, calls)
              IN  /\ Len(calls) = Min(Len(tile_specs), Len(buf_uuids))
                  /\ SameRun(r, made)
                  /\ r.out = made.out
                  /\ r.res = "ok" => r.ncomm = Len(calls)
        /\ \A set_empty_buffer \in BOOLEAN :
              RecvTaskFits(W0, 1, buf_uuids, set_empty_buffer) =>
                 LET calls == RecvCalls(W0.recv_tasks[1].recv_specs, buf_uuids,
                                        set_empty_buffer)
                     r == run_resharding_recv_task(W0, signal, 1, buf_uuids,
                                                   set_empty_buffer, PeerValue)
                     made == MakeCalls(Outcome(W0, "ok", <<>>, 0), signal, calls)
                 IN  /\ SameRun(r, made)
                     /\ r.res = "ok" => r.ncomm = Collectives(calls)

\* a receive task of two specs ran on three buffer uuids with
\* set_empty_buffer: the three tiles of its second spec were received into
\* buffer 2, and the third uuid was ignored
C34_Witness ==
    /\ ret.op = "run_resharding_recv_task" /\ ret.res = "ok"
    /\ "buf_uuids" \in DOMAIN ret
    /\ ret.buf_uuids = <<1, 2, 1>> /\ ret.set_empty_buffer
    /\ Len(W0.recv_tasks[1].recv_specs) = 2
    /\ Len(W0.recv_tasks[1].recv_specs[2].tile_specs) = 3
    /\ ret.ncomm = 3
    /\ ~signal
    /\ W0.buffers[2].data = <<PeerValue, PeerValue>>
    /\ W0.buffers[1].data = <<FillValue, FillValue>>

(***************************************************************************)
(* Properties of the allgather tasks, checked under SpecGather.            *)
(***************************************************************************)
\* the sorted device-id lists of the groups of a task
GroupKeys(tasks) == {sorted(tasks[g].device_ids) : g \in 1..Len(tasks)}

\* every group of every stored task has a communicator set over its devices
\* cached under its sorted device-id list
GroupsCached ==
    \A u \in DOMAIN W0.allgather_tasks :
        \A k \in GroupKeys(W0.allgather_tasks[u].allgather_specs) :
            /\ k \in DOMAIN W0.allgather_communicators
            /\ W0.allgather_communicators[k].devices = k

\* a call keeps every cached set as the very set it was, handing over a task
\* adds one set for each sorted list of the task that had none, and a run of
\* a stored task does not fail for a missing set
CommunicatorsKept ==
    LET comms == W0.allgather_communicators
        after == workers'[0].allgather_communicators
    IN  /\ \A k \in DOMAIN comms : k \in DOMAIN after /\ after[k] = comms[k]
        /\ ret'.op = "put_resharding_allgather_task" =>
              DOMAIN after = DOMAIN comms \cup GroupKeys(ret'.arg)
        /\ ret'.op = "run_allgather_task" =>
              /\ after = comms
              \* the worker holds every buffer: a stored task finds its sets
              /\ ret'.was => ret'.res # "KeyError"

\* C35: after any sequence of put_resharding_allgather_task calls every group
\* of every stored allgather task has a communicator set cached under its
\* sorted device-id list; a set is made at most once per sorted list, so
\* groups that list the same devices in different orders share one; a cached
\* set is never removed or replaced; and run_allgather_task on a stored task
\* never fails for a missing communicator.
C35_CommunicatorsCachedOnce ==
    [][GroupsCached' /\ CommunicatorsKept]_vars

\* Two stored tasks list devices 0 and 1 in both orders, one of them twice;
\* the cache holds the one set made for <<0, 1>> and a run of the second
\* task has returned.
C35_Witness ==
    /\ ret.op = "run_allgather_task" /\ ret.uuid = 2 /\ ret.res = "ok"
    /\ 1 \in DOMAIN W0.allgather_tasks
    /\ W0.allgather_tasks[1].allgather_specs = <<GatherGroups.g01>>
    /\ W0.allgather_tasks[2].allgather_specs =
           <<GatherGroups.g10, GatherGroups.g01>>
    /\ DOMAIN W0.allgather_communicators = {<<0, 1>>}
    /\ W0.allgather_communicators[<<0, 1>>].made_after = 0

(***************************************************************************)
(* Properties of the launch, checked under SpecMesh.                       *)
(***************************************************************************)
\* the calls that launch a mesh: the constructor and launch_xla_servers
Launches == {"__init__", "launch_xla_servers"}

\* the workers of mesh m are num_hosts different processes, the i-th of them
\* spawned for host i - 1 with the mesh's server address and host count
WorkersOfEveryHost(m) ==
    /\ meshes[m].workers # None
    /\ LET ws == meshes[m].workers[1]
       IN  /\ Len(ws) = meshes[m].num_hosts
           /\ \A i, j \in 1..Len(ws) : i # j => ws[i] # ws[j]
           /\ \A i \in 1..Len(ws) :
                 /\ actors[ws[i]].mesh = m
                 /\ actors[ws[i]].host = i - 1
                 /\ actors[ws[i]].server_address = meshes[m].server_address
                 /\ actors[ws[i]].num_hosts = meshes[m].num_hosts

\* a shutdown of mesh m is under way: it drops the worker list (line 877)
\* before it clears launched (line 881)
ShuttingDown(m) == ret.op = "shutdown" /\ ret.uuid = m /\ driver.pc # "idle"

\* a launched mesh that is not being shut down has a worker of every host
LaunchedHasWorkers ==
    \A m \in DOMAIN meshes :
        (meshes[m].launched /\ ~ShuttingDown(m)) => WorkersOfEveryHost(m)

\* the steps of a launch, in their order
LaunchSteps ==
    \* the port is recorded first: it was free and becomes the mesh's address
    /\ used_port_set' # used_port_set =>
          /\ ret.op \in Launches /\ driver.pc = "port" /\ driver'.pc = "service"
          /\ driver.port \notin used_port_set
          /\ used_port_set' = used_port_set \cup {driver.port}
          /\ meshes'[ret.uuid].server_address = Some(driver.port)
    \* the service is started next, at the recorded port, for num_hosts hosts
    /\ services' # services /\ ret.op \in Launches =>
          /\ driver.pc = "service" /\ driver'.pc = "spawn"
          /\ M.server_address = Some(driver.port)
          /\ driver.port \in used_port_set
          /\ services' = Append(services, [port |-> driver.port,
                                           num_hosts |-> M.num_hosts,
                                           status |-> "running"])
          /\ meshes'[ret.uuid].service_server = Some(Len(services'))
          /\ meshes'[ret.uuid].workers = Some(<<>>)
    \* workers are spawned after that, one for the next host at a time
    /\ Len(actors') # Len(actors) =>
          /\ ret.op \in Launches /\ driver.pc = "spawn" /\ driver'.pc = "spawn"
          /\ M.service_server # None
          /\ services[M.service_server[1]] =
                 [port |-> M.server_address[1], num_hosts |-> M.num_hosts,
                  status |-> "running"]
          /\ Len(MeshWorkers) < M.num_hosts
          /\ actors' = Append(actors, [mesh |-> ret.uuid, host |-> Len(MeshWorkers),
                                       server_address |-> M.server_address,
                                       num_hosts |-> M.num_hosts,
                                       status |-> "alive"])
          /\ meshes'[ret.uuid].workers = Some(Append(MeshWorkers, Len(actors')))
    \* the sync call is made when every host has its worker
    /\ (ret'.op \in Launches /\ driver.pc # "sync" /\ driver'.pc = "sync") =>
          /\ driver.pc = "spawn" /\ driver'.acks = {}
          /\ WorkersOfEveryHost(ret.uuid)
    \* launched is set last, when every worker has answered the sync call
    /\ \A m \in DOMAIN meshes \cap DOMAIN meshes' :
          (~meshes[m].launched /\ meshes'[m].launched) =>
              /\ ret.op \in Launches /\ ret.uuid = m
              /\ driver.pc = "sync" /\ driver'.pc = "idle" /\ ret'.res = "ok"
              /\ WorkersOfEveryHost(m)
              /\ Range(meshes[m].workers[1]) \subseteq driver.acks
              /\ meshes'[m] = [meshes[m] EXCEPT !.launched = TRUE]

\* a launched mesh has a worker of every host, at every moment
LaunchedAlwaysHasWorkers ==
    \A m \in DOMAIN meshes : meshes[m].launched => WorkersOfEveryHost(m)

\* C36: a launch of a cluster-allocated mesh of H hosts records a free port,
\* then starts the coordination service at that port, then spawns exactly H
\* workers for the hosts 0 .. H - 1, each given the service address and H,
\* and sets launched only after each of the H workers answered a sync call;
\* launched is never true while the worker list holds fewer than H workers,
\* except inside a shutdown, which drops the list before it clears launched.
C36_LaunchOrder == [][LaunchSteps /\ LaunchedHasWorkers']_vars

\* C36 as stated: the same order, and launched is never true while the worker
\* list holds fewer than H workers, a shutdown under way included.
C36_LaunchedNeverWithoutWorkers == [][LaunchSteps /\ LaunchedAlwaysHasWorkers']_vars

\* the constructor of a mesh of two hosts has returned: the mesh is launched
\* with a worker for host 0 and a worker for host 1, both alive
C36_Witness ==
    /\ ret.op = "__init__" /\ ret.res = "ok" /\ driver.pc = "idle"
    /\ M.launched /\ M.num_hosts = 2 /\ Len(M.workers[1]) = 2
    /\ actors[M.workers[1][1]].host = 0 /\ actors[M.workers[1][2]].host = 1
    /\ services[M.service_server[1]].port = M.server_address[1]

(***************************************************************************)
(* Properties of delete_buffers on a list, checked under SpecDelete.       *)
(***************************************************************************)
\* the positions of the list whose uuid is not in the buffer map
AbsentAt(ids, buffers) == {i \in 1..Len(ids) : ids[i] \notin DOMAIN buffers}

\* the uuids of the list before position k
Before(ids, k) == {ids[i] : i \in 1..(k - 1)}

\* C38: delete_buffers on a list is not atomic: when the first uuid of the
\* list that is absent from the buffer map is at position k, the call fails,
\* the uuids before position k are removed from the map, and the buffers of
\* the uuids after position k are still in the map as they were (a uuid that
\* also stands before position k has been removed there).
C38_DeleteListNotAtomic ==
    [][(ret'.op = "delete_buffers" /\ ret'.arg.iter) =>
          LET ids == ret'.arg.ids
              old == W0.buffers
              new == workers'[0].buffers
              absent == AbsentAt(ids, old)
          IN  /\ DeleteBuffersOf(ret'.arg)
              /\ absent # {} =>
                    LET k == SetMin(absent)
                    IN  /\ ret'.res = "KeyError"
                        /\ DOMAIN new = DOMAIN old \ Before(ids, k)
                        /\ \A j \in (k + 1)..Len(ids) :
                              (ids[j] \in DOMAIN old /\ ids[j] \notin Before(ids, k)) =>
                                  /\ ids[j] \in DOMAIN new
                                  /\ new[ids[j]] = old[ids[j]]]_vars

\* delete_buffers([1, 4, 2]) on a worker that held buffers 1 and 2 and not 4
\* failed: buffer 1 is gone and buffer 2 is still there
C38_Witness ==
    /\ ret.op = "delete_buffers" /\ ret.arg = [iter |-> TRUE, ids |-> <<1, 4, 2>>]
    /\ ret.res = "KeyError"
    /\ 1 \notin DOMAIN W0.buffers /\ 2 \in DOMAIN W0.buffers

\* the last call was a launch that failed while it awaited the sync answers
FailedLaunch ==
    ret.op \in Launches /\ ret.res = "RayError" /\ driver.pc = "idle"

\* what a failed launch leaves: the mesh is not launched, its port is in the
\* used-port set, its coordination service runs, its workers are in the list
LeftHalfLaunched ==
    /\ ~M.launched
    /\ M.server_address # None /\ M.server_address[1] \in used_port_set
    /\ M.service_server # None
    /\ services[M.service_server[1]] =
           [port |-> M.server_address[1], num_hosts |-> M.num_hosts,
            status |-> "running"]
    /\ WorkersOfEveryHost(ret.uuid)

\* C39: a launch that fails while it awaits the workers' sync answers leaves
\* the mesh not launched, with its port still in the used-port set, its
\* coordination service still running and the spawned workers still in the
\* worker list, none of them terminated; the failure of a constructor's
\* launch leaves the constructor, so that mesh is one the caller does not
\* hold.  On a mesh the caller holds, a shutdown() that follows returns at
\* once and terminates no worker and stops no service; a
\* launch_xla_servers() that follows is accepted, and it replaces the worker
\* list while the earlier workers are not terminated and the earlier service
\* is not stopped.
C39_FailedLaunchLeftHalfLaunched ==
    [][/\ (ret.op \in Launches /\ driver.pc = "sync" /\ ret'.res = "RayError") =>
             /\ FailedLaunch'
             /\ LeftHalfLaunched
             /\ UNCHANGED <<used_port_set, services>>
             /\ meshes' = IF ret.op = "__init__"
                          THEN SubSeq(meshes, 1, ret.uuid - 1) ELSE meshes
             /\ \A a \in DOMAIN actors :
                   /\ actors'[a].status # "killed" \/ actors[a].status = "killed"
                   /\ a \in Range(MeshWorkers) => actors'[a].status # "killed"
       /\ (FailedLaunch' /\ ret'.op = "launch_xla_servers") => LeftHalfLaunched'
       /\ (FailedLaunch /\ ret.op = "launch_xla_servers"
             /\ ret'.op = "shutdown" /\ ret'.uuid = ret.uuid) =>
             /\ ret'.res = "ok" /\ driver' = [Idle EXCEPT !.forced = driver'.forced]
             /\ UNCHANGED <<meshes, used_port_set, actors, services>>
       /\ (FailedLaunch /\ ret.op = "launch_xla_servers"
             /\ ret'.op = "launch_xla_servers" /\ ret'.uuid = ret.uuid) =>
             /\ ret'.res = "running" /\ driver'.pc = "port"
             /\ UNCHANGED <<meshes, used_port_set, actors, services>>
       /\ (ret.op = "launch_xla_servers" /\ driver.pc \in {"port", "service", "spawn"}) =>
             /\ \A a \in DOMAIN actors : actors'[a] = actors[a]
             /\ \A v \in DOMAIN services : services'[v] = services[v]
             /\ (driver.pc = "service" /\ M.workers # None) =>
                   /\ meshes'[ret.uuid].workers = Some(<<>>)
                   /\ meshes'[ret.uuid].service_server # M.service_server]_vars

\* a mesh of one host was launched and shut down; its next launch failed at
\* the sync call; launch_xla_servers was then accepted and has launched the
\* mesh with a new worker and a new service, while the worker of the failed
\* launch was never killed and the service of the failed launch still runs
C39_Witness ==
    /\ ret.op = "launch_xla_servers" /\ ret.res = "ok" /\ ~ret.was
    /\ M.launched /\ M.workers = Some(<<3>>) /\ M.service_server = Some(3)
    /\ actors[2].mesh = ret.uuid /\ actors[2].status = "failed"
    /\ services[2].status = "running" /\ services[3].status = "running"
    /\ {services[2].port, services[3].port} \subseteq used_port_set

(***************************************************************************)
(* Properties of the task runs of two workers, checked under               *)
(* SpecReshardFair.                                                        *)
(***************************************************************************)
\* B has a destination buffer for every receive spec, or allocates them
DestinationsProvided ==
    \/ plan.set_empty_buffer
    \/ \A k \in 1..Len(plan.recv_bufs) : plan.recv_bufs[k] \in DOMAIN workers[1].buffers

\* the number, in the order of the receive task, of the tile B stands at
TileNumber(b) ==
    Len(RecvOrder(SubSeq(RecvTask.recv_specs, 1, b.k - 1),
                  SubSeq(plan.recv_bufs, 1, b.k - 1))) + b.i

\* a collective send returns only together with the collective receive of the
\* tile of the same number, and the other way round
PairedInOrder ==
    LET sent == run'.a.k # run.a.k
        received == <<run'.b.k, run'.b.i>> # <<run.b.k, run.b.i>>
                       /\ run.b.stage = "recv"
    IN  (sent \/ received) =>
            /\ sent /\ received
            /\ run.a.stage = "send" /\ run.b.stage = "recv"
            /\ run'.a.k = run.a.k + 1
            /\ run.a.k = TileNumber(run.b)
            /\ run'.b = AfterTile(run.b)

\* C37 (as the code has it): when A runs a send task and B the matching
\* receive task, with the tiles in the same order and every collective send
\* and receive blocking until the peer call arrives, the k-th send is paired
\* with the k-th receive and with no other; both runs return when B holds
\* every destination buffer at the time recv_tile is called on it (the run
\* allocates them, or they were put before).  When it does not, recv_tile
\* raises before its collective call, B's run ends with RuntimeError and A's
\* run stays in the send whose peer call never arrives.
C37_BothRunsTerminatePaired ==
    /\ DestinationsProvided => <>BothReturned
    /\ ~DestinationsProvided =>
          /\ <>[](run.b.stage = "RuntimeError" /\ run.a.stage = "send")
          /\ [](run.a.stage # "returned")
    /\ [][PairedInOrder]_vars

\* C37 as stated: both runs return, whatever B holds, and the k-th send is
\* paired with the k-th receive and with no other
C37_BothRunsAlwaysTerminate ==
    /\ <>BothReturned
    /\ [][PairedInOrder]_vars

\* both runs have returned after two tiles were sent and received, the second
\* into another buffer than the first
C37_Witness ==
    /\ BothReturned /\ ~signal
    /\ Len(SendTask.tile_specs) = 2 /\ Len(RecvTask.recv_specs) = 2
    /\ run.a.k = 3 /\ run.b.k = 3
    /\ TilesArrived

====
